---- MODULE Spec2Model ----
(***************************************************************************)
(* fshasher: Walker (collect / hash), the traversal pool of the collector  *)
(* and the hashing pool, as one state machine.                             *)
(*                                                                         *)
(* A path is the sequence of its components below the entry's root, each   *)
(* component a natural number; PathBuf's Ord is the lexicographic order of *)
(* the components.  A byte vector is a sequence.  A digest is modelled     *)
(* collision-free: the hash of a byte stream is the stream itself, wrapped *)
(* in a one-element vector, so that it is never the zero-length vector.    *)
(***************************************************************************)
EXTENDS Integers, Sequences, FiniteSets, TLC

\* ------------------------------------------------------------------ bounds
MaxThreads == 2
NumRootFiles == 2
MaxContent == 2
\* collect() calls of a caller, and hash() calls after each of them
MaxRuns == 2
MaxHashes == 2
\* the same of a caller whose Breaker is raised at any moment
MaxAbortRuns == 1
MaxAbortHashes == 1
\* changes of the tree between the calls
MaxMutations == 1
\* usize arithmetic wraps at 2^64 in a release build; the width is scaled
\* down to a width TLC's integers hold, the wrap itself is kept.
UsizeBits == 16

\* filters and patterns of an Entry, and elements of a combination
MaxFilters == 2
MaxCmbLen == 2
\* rules of an accept list or of an ignore list
MaxRules == 2
\* the same, of the context files of a directory of a branch
MaxChainRules == 1
\* the length of a path list of which the batch size is taken, the length
\* of one that is cut into batches, and the place of the items in it that
\* hold an error
\* the capacity of the bounded channel of the ticks
MaxCapacity == 1
\* thread::available_parallelism() of the machine
Cores == 1
\* the ranges of a ReadingStrategy::Scenario, and the bounds and file sizes
MaxRanges == 3
\* the calls of is_same
MaxChecks == 3
MaxSize == 2
MaxTotal == 10040
MaxBatchedTotal == 45
MarkEvery == 3

\* ------------------------------------------------------- program constants
MIN_PATHS_PER_JOB == 2
MAX_PATHS_PER_JOB == 500
\* entry/pattern.rs
MAX_DEPTH == 1
\* walker/options.rs
MIN_THREADS_COUNT == 1
MAX_THREADS_MLT_TO_CORES == 2

\* ------------------------------------------------------------- file system
Root == <<>>
SubDir == <<0>>
SubFile == <<0, 1>>
RootFiles == {<<i>> : i \in 1..NumRootFiles}
AllFiles == RootFiles \cup {SubFile}
BadEntry == <<NumRootFiles + 1>>
Tolerances == {"LogErrors", "DoNotLogErrors", "StopOnErrors"}
\* Entry::context: no context file, or ContextFile::Ignore(name); the name is
\* the one the file of the subdirectory has, so that the root may hold a
\* context file too
ContextKinds == {"none", "Ignore"}
ContextFilename == SubFile[Len(SubFile)]

Min(a, b) == IF a < b THEN a ELSE b
Max(a, b) == IF a < b THEN b ELSE a

RECURSIVE PathLess(_, _)
PathLess(a, b) ==
    IF a = <<>> THEN b # <<>>
    ELSE IF b = <<>> THEN FALSE
    ELSE IF Head(a) # Head(b) THEN Head(a) < Head(b)
    ELSE PathLess(Tail(a), Tail(b))

\* ------------------------------------------------------------------ hasher
HasherNew == <<>>
HasherAbsorb(h, data) == h \o data
HasherHash(h) == <<h>>
ContentBytes(c) == <<c>>
\* ------------------------------------------------------------------- state
VARIABLES
    opt,        \* Options: [tolerance, threads, context]
    checked,    \* overflow checks of the build: "traps" (debug), "wraps"
                \* (release), "unseen" until the first overflow shows which
    fs,         \* [stat, content, subdir, bad]: the tree under the entry
    breaker,    \* Breaker.state, shared by every clone
    walker,     \* Walker: [paths, hash]
    user,       \* the caller: [pc, runs, hashes, muts, res]
    cc,         \* collect(): the coordinator thread
    cchan,      \* collect(): action queue, workers -> coordinator
    cw,         \* collect(): the pool's workers
    hc,         \* hash(): the coordinator thread
    hchan,      \* hash(): action queue, workers -> coordinator
    hw,         \* hash(): the pool's workers
    hist,       \* what the caller has observed so far, and what was done late
    probe,      \* an Entry under construction, or a rule set, and the test of a path
    progress,   \* Walker.progress: the channel of the ticks, and who holds its receiver
    tracking    \* Tracking: the storage entry of the configuration, and the call of is_same

vars == <<opt, checked, fs, breaker, walker, user, cc, cchan, cw, hc, hchan, hw, hist,
          probe, progress, tracking>>

Workers == 1..opt.threads
UsizeWrap == 2 ^ UsizeBits

\* HashItem = (PathBuf, Option<Result<Vec<u8>, E>>)
Unhashed(p) == [path |-> p, tag |-> "None", hash |-> <<>>, err |-> "none"]
HashOk(p, h) == [path |-> p, tag |-> "Ok", hash |-> h, err |-> "none"]
HashErr(p, e) == [path |-> p, tag |-> "Err", hash |-> <<>>, err |-> e]

NoResult == [op |-> "none", kind |-> "none", path |-> <<>>, inner |-> "none", digest |-> <<>>]
ResultOf(op, kind, path, inner, digest) ==
    [op |-> op, kind |-> kind, path |-> path, inner |-> inner, digest |-> digest]

RECURSIVE SeqToSet(_)
SeqToSet(s) == IF s = <<>> THEN {} ELSE {Head(s)} \cup SeqToSet(Tail(s))

RECURSIVE SelectItems(_, _)
SelectItems(s, tag) ==
    IF s = <<>> THEN <<>>
    ELSE IF Head(s).tag = tag THEN <<Head(s)>> \o SelectItems(Tail(s), tag)
    ELSE SelectItems(Tail(s), tag)

\* read_dir(dir): the entries of a directory, each with what the worker's
\* probes (is_file, is_dir, a failing DirEntry) find
Children(dir) ==
    IF dir = Root
    THEN {[path |-> f, kind |-> "file"] : f \in {g \in AllFiles \ {SubFile} : fs.stat[g] # "missing"}}
         \cup {[path |-> SubDir, kind |-> "dir"]}
         \cup (IF fs.bad THEN {[path |-> BadEntry, kind |-> "bad"]} ELSE {})
    ELSE IF dir = SubDir
    THEN {[path |-> f, kind |-> "file"] : f \in {g \in {SubFile} : fs.stat[g] # "missing"}}
    ELSE {}

ReadDirFails(dir) == dir = SubDir /\ fs.subdir = "unreadable"

\* the tree at first: the first n names of the root hold a file, and so does
\* the subdirectory
Present(f, n) == f = SubFile \/ f[1] <= n

IdleCollector == [pc |-> "off", queue |-> 0, collected |-> <<>>, invalid |-> <<>>,
                  patterns |-> {}, result |-> NoResult, entry |-> 1]
IdleHasher == [pc |-> "off", paths |-> <<>>, hashes |-> <<>>, perJob |-> 0, total |-> 0,
               shutdowning |-> FALSE, outer |-> NoResult, init |-> "none"]
NoRun == [valid |-> FALSE, fs |-> <<>>, digest |-> <<>>]
\* Entry::new, and no test made yet
NoProbe == [include |-> <<>>, exclude |-> <<>>, patterns |-> <<>>,
            given |-> <<>>, added |-> "none",
            cx |-> <<>>, chain |-> <<>>, context |-> {}, batch |-> <<>>,
            threads |-> <<>>, strategy |-> <<>>,
            path |-> <<>>, kind |-> "none", out |-> "none", call |-> "none", verdict |-> "untested"]
\* the storage holds nothing under the alias of the configuration, and
\* is_same was never called
NoTracking == [busy |-> FALSE, runs |-> 0, calls |-> 0, out |-> "none",
               stored |-> <<>>, before |-> <<>>, known |-> <<>>]
\* a tick that gives the total for the done and the done for the total
TickSwapped(job, done, total) ==
    [job |-> job, done |-> total, total |-> done, run |-> user.runs]
\* Tick { done, total, job }, and the call of collect() that it belongs to
Tick(job, done, total) == [job |-> job, done |-> done, total |-> total, run |-> user.runs]
NoTick == [job |-> "none", done |-> 0, total |-> 0, run |-> 0]
\* Options.progress is None: Walker.progress is None
NoChannel == [some |-> FALSE, capacity |-> 0, rx |-> "none", queue |-> 0,
              dropped |-> FALSE, failed |-> FALSE, swapped |-> FALSE,
              ticks |-> <<>>, last |-> NoTick, taken |-> FALSE]
\* Progress::channel: capacity 0 is channel(), any other is sync_channel();
\* the receiver is kept by the Walker until Walker::progress() hands it out
ProgressChannel(capacity) ==
    [some |-> TRUE, capacity |-> capacity, rx |-> "walker", queue |-> 0,
     dropped |-> FALSE, failed |-> FALSE, swapped |-> FALSE,
     ticks |-> <<>>, last |-> NoTick, taken |-> FALSE]
\* opt.progress.map(Progress::channel)
OptProgress(some, capacity) == IF some THEN ProgressChannel(capacity) ELSE NoChannel
\* Options.progress: Some(capacity)
Capacities == {ProgressChannel(c) : c \in 0..MaxCapacity}
InitHist == [running |-> 0, preAborted |-> FALSE, abortedRun |-> FALSE, abortedBusy |-> FALSE,
             fsDirty |-> FALSE, late |-> FALSE,
             atHash |-> {}, fsAtHash |-> <<>>,
             first |-> NoResult, prev |-> NoRun, last |-> NoRun]

\* Walker::new over the Options, and the tree under the entry
WalkerOver(threads, channels, entries) ==
    /\ opt \in [tolerance : Tolerances, threads : threads, context : ContextKinds,
                entries : entries]
    /\ checked = "unseen"
    /\ \E n \in 0..NumRootFiles, sub \in {"ok", "unreadable"}, bad \in BOOLEAN :
          fs = [stat |-> [f \in AllFiles |-> IF Present(f, n) THEN "ok" ELSE "missing"],
                content |-> [f \in AllFiles |-> IF Present(f, n) THEN 1 ELSE 0],
                subdir |-> sub, bad |-> bad]
    /\ breaker = FALSE
    /\ walker = [paths |-> <<>>, hash |-> [some |-> FALSE, bytes |-> <<>>]]
    /\ user = [pc |-> "idle", runs |-> 0, hashes |-> 0, muts |-> 0, res |-> NoResult]
    /\ cc = IdleCollector
    /\ cchan = <<>>
    /\ cw = <<>>
    /\ hc = IdleHasher
    /\ hchan = <<>>
    /\ hw = <<>>
    /\ hist = InitHist
    /\ probe = NoProbe
    /\ progress \in channels
    /\ tracking = NoTracking

\* Options with one entry, the root of the tree
WalkerNew(threads, channels) == WalkerOver(threads, channels, {<<Root>>})

Init == WalkerNew(1..MaxThreads, {NoChannel})

\* ================================================ progress: the ticks
\* a full bounded queue taken for a failure of the channel
FullIsAnError(p) ==
    IF p.rx = "gone" \/ (p.capacity > 0 /\ p.queue >= p.capacity)
    THEN [p EXCEPT !.failed = TRUE]
    ELSE [p EXCEPT !.queue = @ + 1]
\* Tx::send: Sender::send on Unbound, SyncSender::try_send on Bound, neither
\* of which waits; Full is not a failure, a dropped receiver is
TxSend(p) ==
    IF p.rx = "gone" THEN [p EXCEPT !.failed = TRUE]
    ELSE IF p.capacity > 0 /\ p.queue >= p.capacity THEN [p EXCEPT !.dropped = TRUE]
    ELSE [p EXCEPT !.queue = @ + 1]
\* `if let Some(ref progress) = progress { progress.notify(..) }`: a failed
\* send is logged and nothing else
Notify(p) == IF p.some THEN TxSend(p) ELSE p
\* Progress::notify(job, done, total): the tick is queued if the send queued it
NotifyTick(p, tick) ==
    IF Notify(p).queue > p.queue THEN [Notify(p) EXCEPT !.ticks = Append(@, tick)]
    ELSE Notify(p)

\* Walker::progress: the receiver is handed out once per channel
WalkerProgress ==
    /\ user.pc = "idle"
    /\ progress.some /\ progress.rx = "walker"
    /\ progress' = [progress EXCEPT !.rx = "user", !.taken = FALSE]
    /\ UNCHANGED <<opt, tracking, checked, fs, breaker, walker, user, cc, cchan, cw, hc, hchan, hw,
                   hist, probe>>

\* the consumer takes a tick from the receiver it holds
TickRecv ==
    /\ progress.rx = "user"
    /\ progress.queue > 0
    /\ progress' = [progress EXCEPT !.queue = @ - 1, !.ticks = Tail(@),
                                    !.last = Head(progress.ticks)]
    /\ UNCHANGED <<opt, tracking, checked, fs, breaker, walker, user, cc, cchan, cw, hc, hchan, hw,
                   hist, probe>>

\* the consumer drops the receiver it holds
ReceiverDrop ==
    /\ progress.rx = "user"
    /\ progress' = [progress EXCEPT !.rx = "gone"]
    /\ UNCHANGED <<opt, tracking, checked, fs, breaker, walker, user, cc, cchan, cw, hc, hchan, hw,
                   hist, probe>>

\* Walker::hash, between the spawn and the join: self.progress is replaced,
\* which drops the receiver of the channel the coordinator sends to unless
\* the caller took it
ProgressReplaced ==
    /\ user.pc = "hash"
    /\ progress.some /\ ~progress.swapped
    /\ progress' = [progress EXCEPT !.swapped = TRUE,
                                    !.rx = IF @ = "walker" THEN "gone" ELSE @]
    /\ UNCHANGED <<opt, tracking, checked, fs, breaker, walker, user, cc, cchan, cw, hc, hchan, hw,
                   hist, probe>>

\* =================================================== collector: collect()
CTask(t, p) == [t |-> t, path |-> p]
CMsg(t, p, ps, e) == [t |-> t, path |-> p, paths |-> ps, err |-> e]
NewCollectWorker == [pc |-> "idle", tasks |-> <<>>, count |-> 0, available |-> TRUE,
                     poisoned |-> FALSE, dir |-> <<>>, todo |-> {}, found |-> <<>>]

CTerminated(w) == cw[w].pc \in {"down", "dead"}

\* Worker::run, the `response` closure: the counter is decremented, then the
\* action is sent.  At zero the subtraction traps (the thread panics holding
\* the lock) or wraps, as the build decides.
CResponse(w, msg, next) ==
    \/ /\ cw[w].count = 0
       /\ checked # "wraps"
       /\ checked' = "traps"
       /\ cw' = [cw EXCEPT ![w] = [@ EXCEPT !.pc = "dead", !.poisoned = TRUE]]
       /\ UNCHANGED cchan
    \/ /\ cw[w].count = 0 => checked # "traps"
       /\ checked' = IF cw[w].count = 0 THEN "wraps" ELSE checked
       /\ cw' = [cw EXCEPT ![w] = [next EXCEPT !.count = (cw[w].count - 1) % UsizeWrap]]
       /\ cchan' = Append(cchan, msg)

\* collect(): 'listener was left with the error that check() returned
CollectStopDecided ==
    /\ opt.tolerance = "StopOnErrors"
    /\ cc.pc \in {"shutdown", "join"}
    /\ cc.result.kind = "CollectorError" /\ cc.result.inner = "IO"

\* Worker::run: rx_task.recv() and read_dir()
CWorkerRecv(w) ==
    /\ cw[w].pc = "idle"
    /\ cw[w].tasks # <<>>
    /\ LET task == Head(cw[w].tasks)
           me == [cw[w] EXCEPT !.tasks = Tail(@)]
       IN IF task.t = "Shutdown"
          THEN /\ cw' = [cw EXCEPT ![w] = [me EXCEPT !.pc = "down", !.available = FALSE]]
               /\ UNCHANGED <<cchan, checked>>
          ELSE IF ReadDirFails(task.path)
          THEN CResponse(w, CMsg("ProcessedErr", task.path, <<>>, "IO"), me)
          ELSE /\ cw' = [cw EXCEPT ![w] = [me EXCEPT !.pc = "list", !.dir = task.path,
                                                     !.todo = Children(task.path),
                                                     !.found = <<>>]]
               /\ UNCHANGED <<cchan, checked>>
    /\ hist' = [hist EXCEPT !.late = @ \/ (CollectStopDecided /\ Head(cw[w].tasks).t = "Read")]
    /\ UNCHANGED <<opt, tracking, progress, probe, fs, breaker, walker, user, cc, hc, hchan, hw>>

\* Worker::run: one turn of `for el in els`, entries in the order read_dir
\* yields them, or the Processed that follows the last entry
CWorkerEntry(w) ==
    /\ cw[w].pc = "list"
    /\ LET me == cw[w]
           idle == [me EXCEPT !.pc = "idle", !.todo = {}, !.found = <<>>]
       IN IF me.todo = {}
          THEN CResponse(w, CMsg("Processed", me.dir, me.found, "none"), idle)
          ELSE IF breaker
          THEN CResponse(w, CMsg("Processed", me.dir, me.found, "none"),
                         [idle EXCEPT !.pc = "down", !.available = FALSE])
          ELSE \E el \in me.todo :
                LET rest == [me EXCEPT !.todo = @ \ {el}]
                IN CASE el.kind = "bad" ->
                          CResponse(w, CMsg("Error", el.path, <<>>, "IO"), rest)
                     [] el.kind = "file" ->
                          /\ cw' = [cw EXCEPT ![w] = [rest EXCEPT !.found = Append(@, el.path)]]
                          /\ UNCHANGED <<cchan, checked>>
                     [] el.kind = "dir" ->
                          /\ cw' = [cw EXCEPT ![w] = rest]
                          /\ cchan' = Append(cchan, CMsg("Delegate", el.path, <<>>, "none"))
                          /\ UNCHANGED checked
    /\ UNCHANGED <<opt, tracking, progress, probe, fs, breaker, walker, user, cc, hc, hchan, hw, hist>>

\* Pool::get: the available worker with the least count, the first of them
PoolGet ==
    LET avail == {w \in Workers : cw[w].available}
        least == {w \in avail : \A v \in avail : cw[w].count <= cw[v].count}
    IN IF avail = {} THEN 0 ELSE CHOOSE w \in least : \A v \in least : w <= v

\* Worker::count on a poisoned lock panics the coordinator
CountPanics(ws) == \E w \in ws : cw[w].poisoned

RECURSIVE SumCounts(_)
SumCounts(ws) ==
    IF ws = {} THEN 0
    ELSE LET w == CHOOSE v \in ws : TRUE IN cw[w].count + SumCounts(ws \ {w})

\* Pool::is_all_done
IsAllDone == SumCounts(Workers) % UsizeWrap = 0

\* collect(), `fn check`: the tolerance policy of the coordinator
CheckStops == opt.tolerance = "StopOnErrors"

\* ------------------------------------------------- collector: the Context
\* A rule is a line of a context file: a glob and whether `!` precedes it.
\* The globs of the model match a path by its last component.
Rule(last, negative) == [last |-> last, negative |-> negative]
MatchesPath(rule, path) == path # <<>> /\ path[Len(path)] = rule.last

\* Context::parse: the lines a content stands for, none of them negative: the
\* first content names the subdirectory and the even files, the second the
\* odd files (the context file itself among them), and so on in turn
Parse(content) == {Rule(k, FALSE) : k \in {j \in 0..NumRootFiles : (j + content) % 2 = 1}}

IsFile(path) == path \in AllFiles /\ fs.stat[path] # "missing"
Parent(path) == SubSeq(path, 1, Len(path) - 1)

\* a test that looks for an ignore rule before it looks for an exception
IgnoreBeforeException(cx, path, isFile) ==
    IF \E r \in cx.ignore : ~r.negative /\ MatchesPath(r, path) THEN FALSE
    ELSE IF cx.accept = {} \/ ~isFile THEN TRUE
    ELSE /\ ~\E r \in cx.accept : r.negative /\ MatchesPath(r, path)
         /\ \E r \in cx.accept : ~r.negative /\ MatchesPath(r, path)

\* ContextPatterns::filtered
ContextPatternsFiltered(cx, path, isFile) ==
    IF cx.ignore = {} /\ cx.accept = {} THEN TRUE
    ELSE IF (\E r \in cx.ignore : r.negative /\ MatchesPath(r, path)) /\ cx.accept = {}
    THEN TRUE
    ELSE IF \E r \in cx.ignore : ~r.negative /\ MatchesPath(r, path) THEN FALSE
    ELSE IF cx.accept = {} THEN TRUE
    ELSE IF ~isFile THEN TRUE
    ELSE IF \E r \in cx.accept : r.negative /\ MatchesPath(r, path) THEN FALSE
    ELSE \E r \in cx.accept : ~r.negative /\ MatchesPath(r, path)

\* Context::relevant_to: the patterns of the ancestors of a path, the nearest
\* first
RECURSIVE RelevantTo(_, _)
RelevantTo(patterns, path) ==
    IF path = Root THEN <<>>
    ELSE LET here == {e \in patterns : e.dir = Parent(path)}
         IN (IF here = {} THEN <<>> ELSE <<CHOOSE e \in here : TRUE>>)
                \o RelevantTo(patterns, Parent(path))

\* ContextPatterns::merge, for each of the relevant patterns in turn: an
\* ignore rule is taken over unless its glob is there already
RECURSIVE MergeAll(_, _)
MergeAll(cx, rels) ==
    IF rels = <<>> THEN cx
    ELSE MergeAll([cx EXCEPT !.ignore =
                      @ \cup {r \in Head(rels).ignore : \A o \in cx.ignore : o.last # r.last}],
                  Tail(rels))

\* Context::consider, once the context files of the directory are parsed:
\* rules are recorded for a directory only if its files gave any
ConsiderRules(patterns, parent, own) ==
    IF own.accept = {} /\ own.ignore = {} THEN patterns
    ELSE {e \in patterns : e.dir # parent}
            \cup {MergeAll([dir |-> parent, accept |-> own.accept, ignore |-> own.ignore],
                           RelevantTo(patterns, parent))}

\* a consider that parses nothing and records nothing
ConsiderNothing(patterns, parent) == [err |-> FALSE, patterns |-> patterns]

\* Context::consider: [err, patterns]
Consider(patterns, parent) ==
    LET file == parent \o <<ContextFilename>>
    IN IF opt.context = "none" \/ ~IsFile(file)
       THEN [err |-> FALSE, patterns |-> patterns]
       ELSE IF fs.stat[file] = "unreadable"
       THEN [err |-> TRUE, patterns |-> patterns]
       ELSE LET parsed == Parse(fs.content[file])
            IN [err |-> FALSE,
                patterns |-> ConsiderRules(patterns, parent,
                                [accept |-> IF opt.context = "Accept" THEN parsed ELSE {},
                                 ignore |-> IF opt.context = "Ignore" THEN parsed ELSE {}])]

\* Context::filtered
ContextFiltered(patterns, path) ==
    LET rel == RelevantTo(patterns, path)
    IN IF rel = <<>> THEN TRUE ELSE ContextPatternsFiltered(Head(rel), path, IsFile(path))

\* collect(): paths.into_iter().filter(|p| context.filtered(p))
RECURSIVE FilterPaths(_, _)
FilterPaths(patterns, paths) ==
    IF paths = <<>> THEN <<>>
    ELSE (IF ContextFiltered(patterns, Head(paths)) THEN <<Head(paths)>> ELSE <<>>)
            \o FilterPaths(patterns, Tail(paths))

\* Walker::collect, after collector::collect() has returned
CollectReturn(r, paths) ==
    /\ walker' = [walker EXCEPT !.paths = paths]
    /\ user' = [user EXCEPT !.pc = "idle", !.res = r]
    /\ cc' = IdleCollector
    /\ cchan' = <<>>
    /\ cw' = <<>>
    /\ hist' = [hist EXCEPT !.running = Cardinality({w \in DOMAIN cw : ~CTerminated(w)})]

CollectError(kind) == ResultOf("collect", kind, <<>>, "none", <<>>)
CollectorError(inner) == ResultOf("collect", "CollectorError", <<>>, inner, <<>>)

RECURSIVE UnhashedItems(_)
UnhashedItems(ps) ==
    IF ps = <<>> THEN <<>> ELSE <<Unhashed(Head(ps))>> \o UnhashedItems(Tail(ps))

RECURSIVE InvalidItems(_)
InvalidItems(inv) ==
    IF inv = <<>> THEN <<>>
    ELSE <<HashErr(Head(inv).path, Head(inv).err)>> \o InvalidItems(Tail(inv))

\* a reset that leaves the token as it is
BreakerKept == breaker
\* Breaker::reset
BreakerReset == FALSE

\* no pool is too large
AnyThreads == FALSE
\* the largest pool collect() and hash() agree to create
ThreadsLimit == Cores * MAX_THREADS_MLT_TO_CORES
\* `if cores * options::MAX_THREADS_MLT_TO_CORES < *threads`
TooManyThreads == ThreadsLimit < opt.threads

\* Walker::reset, then Walker::collect up to the spawn of the coordinator
\* and of the pool for the first entry, or up to the early return of
\* collect() over a pool that would be too large
CallCollect ==
    /\ user.pc = "idle"
    /\ walker' = [paths |-> <<>>, hash |-> [some |-> FALSE, bytes |-> <<>>]]
    /\ breaker' = BreakerReset
    /\ IF TooManyThreads
       THEN /\ user' = [user EXCEPT !.runs = @ + 1, !.hashes = 0,
                                    !.res = CollectError("OptimalThreadsNumber")]
            /\ UNCHANGED <<cc, cchan, cw>>
       ELSE /\ user' = [user EXCEPT !.pc = "collect", !.runs = @ + 1, !.hashes = 0]
            /\ cchan' = <<CMsg("Delegate", opt.entries[1], <<>>, "none")>>
            /\ cw' = [w \in Workers |-> NewCollectWorker]
            /\ cc' = [IdleCollector EXCEPT !.pc = "start"]
    /\ hist' = [hist EXCEPT !.running = 0, !.preAborted = breaker, !.abortedRun = FALSE,
                            !.abortedBusy = FALSE, !.fsDirty = FALSE, !.late = FALSE,
                            !.fsAtHash = <<>>,
                            !.first = NoResult]
    /\ UNCHANGED <<opt, tracking, progress, probe, checked, fs, hc, hchan, hw>>

\* collect(): the check made once the pool exists
CStart ==
    /\ cc.pc = "start"
    /\ IF breaker
       THEN /\ CollectReturn(CollectError("Aborted"), walker.paths)
       ELSE /\ cc' = [cc EXCEPT !.pc = "recv"]
            /\ UNCHANGED <<walker, user, cchan, cw, hist>>
    /\ UNCHANGED <<opt, tracking, progress, probe, checked, fs, breaker, hc, hchan, hw>>

\* collect(): one turn of 'listener, from the receive to the match
CRecv ==
    /\ cc.pc = "recv"
    /\ cchan # <<>>
    /\ LET msg == Head(cchan)
           stop(r) == /\ cc' = [cc EXCEPT !.pc = "shutdown", !.result = r]
                      /\ UNCHANGED cw
           tolerate == /\ cc' = [cc EXCEPT !.pc = "try",
                                           !.queue = IF msg.t = "Error" THEN @ ELSE @ - 1,
                                           !.invalid = Append(@, [path |-> msg.path, err |-> msg.err])]
                       /\ UNCHANGED cw
       IN /\ cchan' = Tail(cchan)
          /\ IF breaker THEN stop(CollectError("Aborted"))
             ELSE CASE msg.t = "Delegate" ->
                         IF CountPanics({w \in Workers : cw[w].available})
                         THEN stop(CollectorError("JoinError"))
                         ELSE IF PoolGet = 0 THEN stop(CollectError("NoAvailableWorkers"))
                         ELSE LET cx == Consider(cc.patterns, msg.path)
                              IN IF cx.err THEN stop(CollectorError("IO"))
                                 ELSE IF ~ContextFiltered(cx.patterns, msg.path)
                                 THEN /\ cc' = [cc EXCEPT !.patterns = cx.patterns]
                                      /\ UNCHANGED cw
                                 ELSE /\ cc' = [cc EXCEPT !.queue = @ + 1,
                                                          !.patterns = cx.patterns]
                                      /\ cw' = [cw EXCEPT ![PoolGet] =
                                                   [@ EXCEPT !.count = (@ + 1) % UsizeWrap,
                                                             !.tasks = Append(@, CTask("Read", msg.path))]]
                    [] msg.t = "Processed" ->
                         /\ cc' = [cc EXCEPT !.pc = "try", !.queue = @ - 1,
                                             !.collected = @ \o FilterPaths(cc.patterns, msg.paths)]
                         /\ UNCHANGED cw
                    [] msg.t \in {"ProcessedErr", "Error"} ->
                         IF CheckStops THEN stop(CollectorError(msg.err)) ELSE tolerate
    /\ progress' = IF ~breaker /\ Head(cchan).t = "Processed"
                   THEN NotifyTick(progress, Tick("Collecting", Len(cc'.collected),
                                                  Len(cc'.collected)))
                   ELSE progress
    /\ UNCHANGED <<opt, tracking, probe, checked, fs, breaker, walker, user, hc, hchan, hw, hist>>

\* the workers hold no task, as far as their counters tell
WorkersIdle == IsAllDone
\* collect(): workers.is_all_done() && queue == 0
AllProcessed == IsAllDone /\ cc.queue = 0

\* collect(): the end of a turn: try_recv(), then is_all_done() && queue == 0
CTry ==
    /\ cc.pc = "try"
    /\ IF cchan # <<>> THEN cc' = [cc EXCEPT !.pc = "recv"]
       ELSE IF CountPanics(Workers)
       THEN cc' = [cc EXCEPT !.pc = "shutdown", !.result = CollectorError("JoinError")]
       ELSE IF AllProcessed
       THEN cc' = [cc EXCEPT !.pc = "shutdown", !.result = CollectError("Ok")]
       ELSE cc' = [cc EXCEPT !.pc = "recv"]
    /\ UNCHANGED <<opt, tracking, progress, probe, checked, fs, breaker, walker, user, cchan, cw, hc, hchan, hw, hist>>

\* Pool::shutdown: Task::Shutdown to every worker.  A coordinator that
\* panicked unwinds instead, which drops the pool and every task sender.
CShutdown ==
    /\ cc.pc = "shutdown"
    /\ cc' = [cc EXCEPT !.pc = "join"]
    /\ cw' = [w \in Workers |-> [cw[w] EXCEPT !.tasks = Append(@, CTask("Shutdown", <<>>))]]
    /\ UNCHANGED <<opt, tracking, progress, probe, checked, fs, breaker, walker, user, cchan, hc, hchan, hw, hist>>

\* Pool::shutdown has joined every worker; the last check of the breaker,
\* handle.join() and the return to Walker::collect, which appends what the
\* entry gave to self.paths and goes on to the next entry, or returns the
\* error of the entry
CJoin ==
    /\ cc.pc = "join"
    /\ \A w \in Workers : CTerminated(w)
    /\ LET r == IF cc.result.inner = "JoinError" THEN cc.result
                ELSE IF breaker THEN CollectError("Aborted")
                ELSE cc.result
           paths == IF r.kind = "Ok"
                    THEN walker.paths \o UnhashedItems(cc.collected) \o InvalidItems(cc.invalid)
                    ELSE walker.paths
       IN IF r.kind = "Ok" /\ cc.entry < Len(opt.entries)
          THEN /\ walker' = [walker EXCEPT !.paths = paths]
               /\ cc' = [IdleCollector EXCEPT !.pc = "start", !.entry = cc.entry + 1]
               /\ cchan' = <<CMsg("Delegate", opt.entries[cc.entry + 1], <<>>, "none")>>
               /\ cw' = [w \in Workers |-> NewCollectWorker]
               /\ UNCHANGED <<user, hist>>
          ELSE CollectReturn(r, paths)
    /\ UNCHANGED <<opt, tracking, progress, probe, checked, fs, breaker, hc, hchan, hw>>

\* Breaker::abort, from any thread that holds a clone
Abort ==
    /\ ~breaker
    /\ breaker' = TRUE
    /\ hist' = [hist EXCEPT !.abortedRun = user.pc # "idle",
                            !.abortedBusy = /\ user.pc = "hash"
                                            /\ hc.pc \in {"recv", "down"}
                                            /\ \E w \in Workers :
                                                 \/ hw[w].pc \in {"work", "read"}
                                                 \/ \E i \in 1..Len(hw[w].tasks) :
                                                      hw[w].tasks[i].t = "Hash"]
    /\ UNCHANGED <<opt, tracking, progress, probe, checked, fs, walker, user, cc, cchan, cw, hc, hchan, hw>>

\* ============================================================ Walker::hash
HTask(t, jobs) == [t |-> t, jobs |-> jobs]
HMsg(t, w, items, p, e) == [t |-> t, w |-> w, items |-> items, path |-> p, err |-> e]
NewHashWorker == [pc |-> "idle", tasks |-> <<>>, jobs |-> <<>>, cur |-> <<>>,
                  collected |-> <<>>, queue |-> 0, available |-> TRUE]

HTerminated(w) == hw[w].pc \in {"down", "dead"}

\* a batch size that rounds the twentieth part down
PathsPerJobFloor(total) == Min(Max(total \div 20, MIN_PATHS_PER_JOB), MAX_PATHS_PER_JOB)
\* paths_per_jobs = ceil(total * 0.05).clamp(MIN_PATHS_PER_JOB, MAX_PATHS_PER_JOB)
PathsPerJob(total) == Min(Max((total + 19) \div 20, MIN_PATHS_PER_JOB), MAX_PATHS_PER_JOB)

\* the digest of a file of which nothing was read
UnreadFileDigest(p) == HasherHash(HasherNew)
\* hash_file on a readable file: a fresh hasher absorbs the content, finish()
FileDigest(p) == HasherHash(HasherAbsorb(HasherNew, ContentBytes(fs.content[p])))

\* an error handed on without the path it belongs to
UnboundError(p, e) == ResultOf("hash", e, <<>>, "none", <<>>)
\* hash(), `fn check_err`
BoundError(p, e) == ResultOf("hash", "Bound", p, e, <<>>)
HashError(kind) == ResultOf("hash", kind, <<>>, "none", <<>>)
HashOkResult(bytes) == ResultOf("hash", "Ok", <<>>, "none", bytes)

\* a purge that leaves no item for a path that is gone
PurgedSilently(hashes, path) == hashes
\* check_err under LogErrors and DoNotLogErrors, for a path that is gone
Purged(hashes, path) == Append(hashes, HashErr(path, "NotFound"))

\* hash(), `fn get_next_job`: [err, jobs, paths, hashes]
RECURSIVE GetNextJob(_, _, _, _)
GetNextJob(paths, perJob, jobs, hashes) ==
    IF ~(Len(jobs) < perJob /\ paths # <<>>)
    THEN [err |-> NoResult, jobs |-> jobs, paths |-> paths, hashes |-> hashes]
    ELSE LET item == Head(paths)
         IN IF item.tag # "None"
            THEN GetNextJob(Tail(paths), perJob, jobs, hashes)
            ELSE IF fs.stat[item.path] = "missing"
            THEN IF opt.tolerance = "StopOnErrors"
                 THEN [err |-> BoundError(item.path, "NotFound"), jobs |-> jobs,
                       paths |-> Tail(paths), hashes |-> hashes]
                 ELSE GetNextJob(Tail(paths), perJob, jobs, Purged(hashes, item.path))
            ELSE GetNextJob(Tail(paths), perJob, Append(jobs, item.path), hashes)

\* a delegate that hands the batch to every worker of the pool
DelegatedToAll(pool, w, jobs) ==
    [v \in DOMAIN pool |-> [pool[v] EXCEPT !.queue = (@ + 1) % UsizeWrap,
                                           !.tasks = Append(@, HTask("Hash", jobs))]]

\* Worker::delegate applied to the pool
Delegated(pool, w, jobs) ==
    [pool EXCEPT ![w] = [@ EXCEPT !.queue = (@ + 1) % UsizeWrap,
                                  !.tasks = Append(@, HTask("Hash", jobs))]]

\* hash(), `fn deligate` with worker_id = None: every worker in turn
RECURSIVE DeligateAll(_, _, _, _)
DeligateAll(i, paths, hashes, pool) ==
    IF i > opt.threads
    THEN [status |-> "Success", err |-> NoResult, paths |-> paths, hashes |-> hashes, pool |-> pool]
    ELSE LET job == GetNextJob(paths, hc.perJob, <<>>, hashes)
         IN IF job.err.kind # "none"
            THEN [status |-> "Err", err |-> job.err, paths |-> job.paths,
                  hashes |-> job.hashes, pool |-> pool]
            ELSE IF job.jobs = <<>>
            THEN [status |-> IF i = 1 THEN "NoJobs" ELSE "Success", err |-> NoResult,
                  paths |-> job.paths, hashes |-> job.hashes, pool |-> pool]
            ELSE DeligateAll(i + 1, job.paths, job.hashes, Delegated(pool, i, job.jobs))

\* hash(), `fn deligate` with worker_id = Some(id)
DeligateTo(id, paths, hashes, pool) ==
    IF paths = <<>>
    THEN [status |-> "NoJobs", err |-> NoResult, paths |-> paths, hashes |-> hashes, pool |-> pool]
    ELSE LET job == GetNextJob(paths, hc.perJob, <<>>, hashes)
             avail == {w \in Workers : pool[w].available}
         IN IF job.err.kind # "none"
            THEN [status |-> "Err", err |-> job.err, paths |-> job.paths,
                  hashes |-> job.hashes, pool |-> pool]
            ELSE IF job.jobs = <<>>
            THEN [status |-> "NoJobs", err |-> NoResult, paths |-> job.paths,
                  hashes |-> job.hashes, pool |-> pool]
            ELSE [status |-> "Success", err |-> NoResult, paths |-> job.paths,
                  hashes |-> job.hashes,
                  pool |-> IF pool[id].available THEN Delegated(pool, id, job.jobs)
                           ELSE IF avail # {}
                           THEN Delegated(pool, CHOOSE w \in avail : \A v \in avail : w <= v,
                                          job.jobs)
                           ELSE pool]

\* a shutdown that sends nothing
PoolLeftRunning(pool) == pool
\* Pool::shutdown: Task::Shutdown to every worker that is available, once
PoolShutdown(pool) ==
    IF hc.shutdowning THEN pool
    ELSE [w \in Workers |-> IF pool[w].available
                            THEN [pool[w] EXCEPT !.tasks = Append(@, HTask("Shutdown", <<>>))]
                            ELSE pool[w]]

\* Pool::is_all_down
IsAllDown == \A w \in Workers : ~hw[w].available

\* hashes.sort_by(|(a, _), (b, _)| a.cmp(b)): a stable sort
RECURSIVE InsertByPath(_, _)
InsertByPath(item, sorted) ==
    IF sorted = <<>> THEN <<item>>
    ELSE IF PathLess(item.path, Head(sorted).path) THEN <<item>> \o sorted
    ELSE <<Head(sorted)>> \o InsertByPath(item, Tail(sorted))

RECURSIVE SortByPath(_)
SortByPath(items) ==
    IF items = <<>> THEN <<>>
    ELSE InsertByPath(items[Len(items)], SortByPath(SubSeq(items, 1, Len(items) - 1)))

\* a loop that ends at the first item that holds no digest
RECURSIVE AbsorbUntilError(_, _)
AbsorbUntilError(summary, items) ==
    IF items = <<>> \/ Head(items).tag # "Ok" THEN summary
    ELSE AbsorbUntilError(HasherAbsorb(summary, Head(items).hash), Tail(items))

\* hash(): summary.absorb(hash) for every Some(Ok(hash)), in the given order
RECURSIVE AbsorbAll(_, _)
AbsorbAll(summary, items) ==
    IF items = <<>> THEN summary
    ELSE AbsorbAll(IF Head(items).tag = "Ok" THEN HasherAbsorb(summary, Head(items).hash)
                   ELSE summary,
                   Tail(items))

\* the items a worker reports, kept without their digests
RECURSIVE ProcessedUnhashed(_)
ProcessedUnhashed(done) ==
    IF done = <<>> THEN <<>>
    ELSE <<Unhashed(Head(done).path)>> \o ProcessedUnhashed(Tail(done))

\* hash(): processed.into_iter().map(|(p, h)| (p, Some(Ok(h))))
RECURSIVE ProcessedItems(_)
ProcessedItems(done) ==
    IF done = <<>> THEN <<>>
    ELSE <<HashOk(Head(done).path, Head(done).hash)>> \o ProcessedItems(Tail(done))

\* the items left in the order in which the workers reported them
ReportedOrder(hashes) == hashes
\* hash(): what the coordinator thread returns on Ok: the sorted items
SortedHashes(hashes) == SortByPath(hashes)
SummaryOf(sorted) == AbsorbAll(HasherNew, sorted)

\* hash(): self.hash after the join
HashBytes(items) ==
    IF Len(SelectItems(items, "Ok")) = 0 \/ items = <<>> THEN <<>>
    ELSE HasherHash(SummaryOf(items))

\* what the caller notes of a hash() that returns r: the result of the first
\* hash() after a collect(), and the tree and the digest of a run (a collect()
\* that succeeds, then a hash() that succeeds) over a tree that stayed as it
\* was, the token down
FirstHash == user.runs > 0 /\ user.hashes = 1
Observed(r) ==
    LET run == FirstHash /\ ~hist.fsDirty /\ ~breaker /\ r.kind = "Ok"
    IN [hist EXCEPT !.first = IF FirstHash THEN r ELSE @,
                    !.prev = IF run THEN hist.last ELSE @,
                    !.last = IF run THEN [valid |-> TRUE, fs |-> fs, digest |-> r.digest]
                             ELSE @]

\* Walker::hash, after the coordinator thread has been joined
HashReturn(r, paths, stored) ==
    /\ walker' = [paths |-> paths, hash |-> stored]
    /\ user' = [user EXCEPT !.pc = "idle", !.res = r]
    /\ hc' = IdleHasher
    /\ hchan' = <<>>
    /\ hw' = <<>>
    /\ hist' = [Observed(r) EXCEPT !.running = Cardinality({w \in DOMAIN hw : ~HTerminated(w)})]

\* a digest finalized over no input, in place of the zero-length vector
EmptyStreamDigest == HasherHash(HasherNew)
\* Walker::hash: `if self.paths.is_empty() { return Ok(&[]) }`
NoPathsDigest == <<>>

\* Walker::hash up to the spawn of the pool and of the coordinator thread
CallHash ==
    /\ user.pc = "idle"
    /\ IF walker.paths = <<>>
       THEN /\ user' = [user EXCEPT !.hashes = @ + 1, !.res = HashOkResult(NoPathsDigest)]
            /\ hist' = [hist EXCEPT !.running = 0, !.preAborted = breaker, !.abortedRun = FALSE,
                                    !.abortedBusy = FALSE, !.late = FALSE, !.atHash = {},
                                    !.fsAtHash = fs,
                                    !.first = IF user.runs > 0 /\ user.hashes = 0
                                              THEN HashOkResult(NoPathsDigest) ELSE @]
            /\ UNCHANGED <<walker, hc, hw>>
       ELSE IF TooManyThreads
       THEN /\ user' = [user EXCEPT !.hashes = @ + 1, !.res = HashError("OptimalThreadsNumber")]
            /\ hist' = [hist EXCEPT !.running = 0, !.preAborted = breaker, !.abortedRun = FALSE,
                                    !.abortedBusy = FALSE, !.late = FALSE,
                                    !.atHash = SeqToSet(walker.paths), !.fsAtHash = fs]
            /\ UNCHANGED <<walker, hc, hw>>
       ELSE /\ user' = [user EXCEPT !.pc = "hash", !.hashes = @ + 1]
            /\ walker' = [walker EXCEPT !.paths = <<>>]
            /\ hc' = [IdleHasher EXCEPT !.pc = "init", !.paths = walker.paths,
                                        !.total = Len(walker.paths),
                                        !.perJob = PathsPerJob(Len(walker.paths))]
            /\ hw' = [w \in Workers |-> NewHashWorker]
            /\ hist' = [hist EXCEPT !.running = 0, !.preAborted = breaker, !.abortedRun = FALSE,
                                    !.abortedBusy = FALSE, !.late = FALSE,
                                    !.atHash = SeqToSet(walker.paths), !.fsAtHash = fs]
    /\ hchan' = <<>>
    /\ progress' = [progress EXCEPT !.taken = progress.rx = "user"]
    /\ UNCHANGED <<opt, tracking, probe, checked, fs, breaker, cc, cchan, cw>>

\* hash(): the first deligate(), a batch for every worker
HInit ==
    /\ hc.pc = "init"
    /\ LET d == DeligateAll(1, hc.paths, hc.hashes, hw)
       IN /\ hc' = [hc EXCEPT !.pc = IF d.status = "Success" THEN "recv" ELSE "wait",
                              !.init = d.status,
                              !.outer = IF d.status = "Err" THEN d.err ELSE HashError("Ok"),
                              !.paths = d.paths, !.hashes = d.hashes]
          /\ hw' = d.pool
    /\ UNCHANGED <<opt, tracking, progress, probe, checked, fs, breaker, walker, user, cc, cchan, cw, hchan, hist>>

\* hash(): one turn of 'outer, from the receive to the end of the match
HRecv ==
    /\ hc.pc = "recv"
    /\ hchan # <<>>
    /\ LET msg == Head(hchan)
           stop(r) == /\ hc' = [hc EXCEPT !.pc = "wait", !.outer = r]
                      /\ UNCHANGED hw
       IN /\ hchan' = Tail(hchan)
          /\ IF breaker THEN stop(HashError("Aborted"))
             ELSE CASE msg.t = "Processed" ->
                         LET d == DeligateTo(msg.w, hc.paths,
                                             hc.hashes \o ProcessedItems(msg.items), hw)
                         IN /\ hc' = [hc EXCEPT
                                        !.pc = IF d.status = "Err" THEN "wait" ELSE "down",
                                        !.outer = IF d.status = "Err" THEN d.err ELSE @,
                                        !.paths = d.paths, !.hashes = d.hashes,
                                        !.shutdowning = @ \/ d.status = "NoJobs"]
                            /\ hw' = IF d.status = "NoJobs" THEN PoolShutdown(d.pool) ELSE d.pool
                    [] msg.t = "WorkerShutdownNotification" ->
                         /\ hc' = [hc EXCEPT !.pc = "down"]
                         /\ UNCHANGED hw
                    [] msg.t = "Error" ->
                         IF opt.tolerance = "StopOnErrors"
                         THEN stop(BoundError(msg.path, msg.err))
                         ELSE /\ hc' = [hc EXCEPT !.pc = "down",
                                                  !.hashes = Append(@, HashErr(msg.path, msg.err))]
                              /\ UNCHANGED hw
    /\ progress' = IF ~breaker /\ Head(hchan).t = "Processed"
                   THEN NotifyTick(progress,
                                   Tick("Hashing",
                                        Len(hc.hashes \o ProcessedItems(Head(hchan).items)),
                                        hc.total))
                   ELSE progress
    /\ UNCHANGED <<opt, tracking, probe, checked, fs, breaker, walker, user, cc, cchan, cw, hist>>

\* hash(): the end of a turn: is_all_down(), then try_recv()
HDown ==
    /\ hc.pc = "down"
    /\ hc' = [hc EXCEPT !.pc = IF IsAllDown /\ hchan = <<>> THEN "wait" ELSE "recv"]
    /\ UNCHANGED <<opt, tracking, progress, probe, checked, fs, breaker, walker, user, cc, cchan, cw, hchan, hw, hist>>

\* hash(): pool.shutdown() after the loop, or after a first deligate() that
\* handed nothing out
HWait ==
    /\ hc.pc = "wait"
    /\ hc' = [hc EXCEPT !.pc = "join", !.shutdowning = TRUE]
    /\ hw' = PoolShutdown(hw)
    /\ UNCHANGED <<opt, tracking, progress, probe, checked, fs, breaker, walker, user, cc, cchan, cw, hchan, hist>>

\* hash(): pool.wait() has joined every worker; the sort, the summary,
\* handle.join() and what Walker::hash stores and returns
HJoin ==
    /\ hc.pc = "join"
    /\ \A w \in Workers : HTerminated(w)
    /\ progress.some => progress.swapped
    /\ progress' = [OptProgress(progress.some, progress.capacity)
                      EXCEPT !.taken = progress.taken]
    /\ IF hc.outer.kind # "Ok"
       THEN HashReturn(hc.outer, <<>>, walker.hash)
       ELSE LET items == IF hc.init = "NoJobs" THEN hc.hashes ELSE SortedHashes(hc.hashes)
            IN HashReturn(HashOkResult(HashBytes(items)), items,
                          [some |-> TRUE, bytes |-> HashBytes(items)])
    /\ UNCHANGED <<opt, tracking, probe, checked, fs, breaker, cc, cchan, cw>>

\* walker Worker::run, the `response` closure: the counter is decremented
\* (it traps at zero in a checked build), then the action is sent
HResponse(w, msg, next) ==
    \/ /\ hw[w].queue = 0
       /\ checked # "wraps"
       /\ checked' = "traps"
       /\ hw' = [hw EXCEPT ![w] = [@ EXCEPT !.pc = "dead"]]
       /\ UNCHANGED hchan
    \/ /\ hw[w].queue = 0 => checked # "traps"
       /\ checked' = IF hw[w].queue = 0 THEN "wraps" ELSE checked
       /\ hw' = [hw EXCEPT ![w] = [next EXCEPT !.queue = (hw[w].queue - 1) % UsizeWrap]]
       /\ hchan' = Append(hchan, msg)

\* walker Worker::run: rx_task.recv()
HWorkerRecv(w) ==
    /\ hw[w].pc = "idle"
    /\ hw[w].tasks # <<>>
    /\ LET task == Head(hw[w].tasks)
       IN hw' = [hw EXCEPT ![w] = [@ EXCEPT !.tasks = Tail(@),
                                            !.pc = IF task.t = "Shutdown" THEN "exiting" ELSE "work",
                                            !.jobs = task.jobs, !.collected = <<>>]]
    /\ UNCHANGED <<opt, tracking, progress, probe, checked, fs, breaker, walker, user, cc, cchan, cw, hc, hchan, hist>>

\* hash(): 'outer was left with the error that check_err() or deligate() returned
HashStopDecided ==
    /\ opt.tolerance = "StopOnErrors"
    /\ hc.pc \in {"wait", "join"}
    /\ hc.outer.kind = "Bound"

\* walker Worker::run: one turn of `for ... in jobs` up to the first read of
\* hash_file, or the Processed that follows the last job
HWorkerFile(w) ==
    /\ hw[w].pc = "work"
    /\ LET me == hw[w]
           p == Head(me.jobs)
           rest == [me EXCEPT !.jobs = Tail(@)]
       IN IF me.jobs = <<>>
          THEN HResponse(w, HMsg("Processed", w, me.collected, <<>>, "none"),
                         [me EXCEPT !.pc = "idle", !.collected = <<>>])
          ELSE IF breaker
          THEN /\ hw' = [hw EXCEPT ![w] = [me EXCEPT !.pc = "exiting"]]
               /\ UNCHANGED <<hchan, checked>>
          ELSE IF fs.stat[p] = "missing"
          THEN HResponse(w, HMsg("Error", w, <<>>, p, "FileDoesNotExists"), rest)
          ELSE IF fs.stat[p] = "unreadable"
          THEN HResponse(w, HMsg("Error", w, <<>>, p, "IO"), rest)
          ELSE /\ hw' = [hw EXCEPT ![w] = [rest EXCEPT !.pc = "read", !.cur = p]]
               /\ UNCHANGED <<hchan, checked>>
    /\ hist' = [hist EXCEPT !.late = @ \/ (HashStopDecided /\ hw[w].jobs # <<>> /\ ~breaker)]
    /\ UNCHANGED <<opt, tracking, progress, probe, fs, breaker, walker, user, cc, cchan, cw, hc>>

\* hash_file: the next turn of the buffer loop, which ends the file
HWorkerRead(w) ==
    /\ hw[w].pc = "read"
    /\ LET me == hw[w]
           back == [me EXCEPT !.pc = "work", !.cur = <<>>]
       IN IF breaker
          THEN HResponse(w, HMsg("Error", w, <<>>, me.cur, "Aborted"), back)
          ELSE /\ hw' = [hw EXCEPT ![w] =
                           [back EXCEPT !.collected =
                                          Append(@, [path |-> me.cur, hash |-> FileDigest(me.cur)])]]
               /\ UNCHANGED <<hchan, checked>>
    /\ UNCHANGED <<opt, tracking, progress, probe, fs, breaker, walker, user, cc, cchan, cw, hc, hist>>

\* walker Worker::run, after the loop: available.store(false)
HWorkerExit(w) ==
    /\ hw[w].pc = "exiting"
    /\ hw' = [hw EXCEPT ![w] = [@ EXCEPT !.pc = "notify", !.available = FALSE]]
    /\ UNCHANGED <<opt, tracking, progress, probe, checked, fs, breaker, walker, user, cc, cchan, cw, hc, hchan, hist>>

\* walker Worker::run, after the loop: Action::WorkerShutdownNotification
HWorkerNotify(w) ==
    /\ hw[w].pc = "notify"
    /\ hw' = [hw EXCEPT ![w] = [@ EXCEPT !.pc = "down"]]
    /\ hchan' = Append(hchan, HMsg("WorkerShutdownNotification", w, <<>>, <<>>, "none"))
    /\ UNCHANGED <<opt, tracking, progress, probe, checked, fs, breaker, walker, user, cc, cchan, cw, hc, hist>>

\* =========================================================== file system
\* Between two calls of the Walker the tree changes: a file is rewritten,
\* removed, made unreadable, created, or renamed to a free name.
Touched(stat, content) ==
    /\ user.pc = "idle"
    /\ user.runs > 0
    /\ user.muts < MaxMutations
    /\ fs' = [fs EXCEPT !.stat = stat, !.content = content]
    /\ user' = [user EXCEPT !.muts = @ + 1]
    /\ hist' = [hist EXCEPT !.fsDirty = TRUE]
    /\ UNCHANGED <<opt, tracking, progress, probe, checked, breaker, walker, cc, cchan, cw, hc, hchan, hw>>

Rewrite ==
    \E f \in AllFiles, c \in 1..MaxContent :
       /\ fs.stat[f] # "missing"
       /\ c # fs.content[f]
       /\ Touched(fs.stat, [fs.content EXCEPT ![f] = c])

Remove ==
    \E f \in AllFiles :
       /\ fs.stat[f] # "missing"
       /\ Touched([fs.stat EXCEPT ![f] = "missing"], [fs.content EXCEPT ![f] = 0])

Protect ==
    \E f \in AllFiles :
       /\ fs.stat[f] = "ok"
       /\ Touched([fs.stat EXCEPT ![f] = "unreadable"], fs.content)

Create ==
    \E f \in AllFiles, c \in 1..MaxContent :
       /\ fs.stat[f] = "missing"
       /\ Touched([fs.stat EXCEPT ![f] = "ok"], [fs.content EXCEPT ![f] = c])

Rename ==
    \E f \in AllFiles, g \in AllFiles :
       /\ fs.stat[f] # "missing"
       /\ fs.stat[g] = "missing"
       /\ Touched([fs.stat EXCEPT ![f] = "missing", ![g] = fs.stat[f]],
                  [fs.content EXCEPT ![g] = fs.content[f], ![f] = 0])

\* ====================================================== entry: the filters
\* A glob is a sequence of tokens: the name of a path component, Star for any
\* run of components (`*` of the glob crate crosses separators), or Invalid
\* for a text Pattern::new refuses.
Star == NumRootFiles + 1
Invalid == NumRootFiles + 2
Globs == {<<ContextFilename>>, <<Star, ContextFilename>>, <<SubDir[1], Star>>, <<Invalid>>}

\* Pattern::new succeeds
ValidGlob(g) == \A i \in DOMAIN g : g[i] # Invalid

\* Pattern::matches_path
RECURSIVE GlobMatches(_, _)
GlobMatches(g, path) ==
    IF g = <<>> THEN path = <<>>
    ELSE IF Head(g) = Star
    THEN GlobMatches(Tail(g), path) \/ (path # <<>> /\ GlobMatches(g, Tail(path)))
    ELSE path # <<>> /\ Head(path) = Head(g) /\ GlobMatches(Tail(g), Tail(path))

\* Filter and PatternFilter, as the caller writes them
NoFilter == [k |-> "none", g |-> <<>>, xs |-> <<>>]
Filter(k, g) == [k |-> k, g |-> g, xs |-> <<>>]
Cmb(xs) == [k |-> "Cmb", g |-> <<>>, xs |-> xs]
Filters == {Filter(k, g) : k \in {"Files", "Folders", "Common"}, g \in Globs}
PatternGlobs == {<<Star, ContextFilename>>, <<Invalid>>}
SimplePatterns == {Filter(k, g) : k \in {"Ignore", "Accept"}, g \in PatternGlobs}
\* combinations a combination may be given as an element: of one pattern
\* that compiles or of none
InnerCmbs == {Cmb(<<>>)} \cup {Cmb(<<p>>) : p \in {q \in SimplePatterns : ValidGlob(q.g)}}
PatternFilters ==
    SimplePatterns
    \cup {Cmb(xs) : xs \in UNION {[1..n -> SimplePatterns \cup InnerCmbs] : n \in 0..MaxCmbLen}}

\* the paths a test is made of, and what is_file() and is_dir() find there
ProbePaths == AllFiles \cup {SubDir}
PathKinds == {"file", "dir", "other"}

\* TryInto<FilterAccepted> for Filter: the filter compiles
FilterTryInto(f) == ValidGlob(f.g)

\* TryInto<PatternFilterAccepted> for PatternFilter: the pattern compiles, a
\* combination when each of its elements does
RECURSIVE PatternTryInto(_)
PatternTryInto(p) ==
    IF p.k = "Cmb" THEN \A i \in DOMAIN p.xs : PatternTryInto(p.xs[i])
    ELSE ValidGlob(p.g)

\* Vec::contains
Contains(list, x) == \E i \in DOMAIN list : list[i] = x

\* the filters an Entry holds
EntrySize == Len(probe.include) + Len(probe.exclude) + Len(probe.patterns)

\* a builder call on an Entry that no traversal uses yet
Building ==
    /\ probe.out = "none" /\ probe.cx = <<>> /\ probe.chain = <<>> /\ probe.batch = <<>>
    /\ probe.strategy = <<>> /\ probe.verdict = "untested"
    /\ EntrySize < MaxFilters

\* Entry::include
EntryInclude ==
    Building /\ \E f \in Filters :
       /\ probe' = IF ~FilterTryInto(f)
                   THEN [probe EXCEPT !.call = "include", !.given = f, !.added = "Err"]
                   ELSE [probe EXCEPT !.call = "include", !.given = f, !.added = "Ok",
                                      !.include = IF ~Contains(probe.include, f)
                                                     /\ ~Contains(probe.exclude, f)
                                                  THEN Append(@, f) ELSE @]
       /\ UNCHANGED <<opt, tracking, progress, checked, fs, breaker, walker, user, cc, cchan, cw, hc, hchan, hw, hist>>

\* Entry::exclude
EntryExclude ==
    Building /\ \E f \in Filters :
       /\ probe' = IF ~FilterTryInto(f)
                   THEN [probe EXCEPT !.call = "exclude", !.given = f, !.added = "Err"]
                   ELSE [probe EXCEPT !.call = "exclude", !.given = f, !.added = "Ok",
                                      !.exclude = IF ~Contains(probe.include, f)
                                                     /\ ~Contains(probe.exclude, f)
                                                  THEN Append(@, f) ELSE @]
       /\ UNCHANGED <<opt, tracking, progress, checked, fs, breaker, walker, user, cc, cchan, cw, hc, hchan, hw, hist>>

\* Entry::pattern
EntryPattern ==
    Building /\ \E p \in PatternFilters :
       /\ probe' = IF ~PatternTryInto(p)
                   THEN [probe EXCEPT !.call = "pattern", !.given = p, !.added = "Err"]
                   ELSE [probe EXCEPT !.call = "pattern", !.given = p, !.added = "Ok",
                                      !.patterns = IF ~Contains(probe.patterns, p)
                                                   THEN Append(@, p) ELSE @]
       /\ UNCHANGED <<opt, tracking, progress, checked, fs, breaker, walker, user, cc, cchan, cw, hc, hchan, hw, hist>>

\* Option<bool>::unwrap_or_default and unwrap_or(true)
NoneAsMatch(o) == o # "nomatch"
UnwrapOrDefault(o) == o = "match"
UnwrapOrTrue(o) == o # "nomatch"

\* FilterAccepted::filtered: Option<bool>.  A Files filter is matched against
\* the file name, the two others against the whole path.
FilterFiltered(f, path, kind) ==
    LET found(on) == IF GlobMatches(f.g, on) THEN "match" ELSE "nomatch"
    IN CASE f.k = "Files" -> IF kind = "file" THEN found(<<path[Len(path)]>>) ELSE "none"
         [] f.k = "Folders" -> IF kind = "dir" THEN found(path) ELSE "none"
         [] f.k = "Common" -> found(path)

\* PatternFilterAccepted::filtered_with_depth: "pass", "reject", or "panic";
\* any() stops at the first element that rejects
RECURSIVE FilteredWithDepth(_, _, _)
RECURSIVE NoneRejects(_, _, _)
FilteredWithDepth(p, path, depth) ==
    IF depth > MAX_DEPTH THEN "panic"
    ELSE CASE p.k = "Ignore" -> IF GlobMatches(p.g, path) THEN "reject" ELSE "pass"
           [] p.k = "Accept" -> IF GlobMatches(p.g, path) THEN "pass" ELSE "reject"
           [] p.k = "Cmb" -> NoneRejects(p.xs, path, depth + 1)
NoneRejects(xs, path, depth) ==
    IF xs = <<>> THEN "pass"
    ELSE LET r == FilteredWithDepth(Head(xs), path, depth)
         IN IF r = "pass" THEN NoneRejects(Tail(xs), path, depth) ELSE r

\* self.patterns.iter().any(|pattern| pattern.filtered(&path))
RECURSIVE AnyPatternPasses(_, _)
AnyPatternPasses(patterns, path) ==
    IF patterns = <<>> THEN "reject"
    ELSE LET r == FilteredWithDepth(Head(patterns), path, 0)
         IN IF r = "reject" THEN AnyPatternPasses(Tail(patterns), path) ELSE r

\* Entry::filtered
EntryFilteredOf(entry, path, kind) ==
    IF entry.patterns # <<>> THEN AnyPatternPasses(entry.patterns, path)
    ELSE IF \E i \in DOMAIN entry.exclude :
               UnwrapOrDefault(FilterFiltered(entry.exclude[i], path, kind))
    THEN "reject"
    ELSE IF entry.include = <<>> THEN "pass"
    ELSE IF \E i \in DOMAIN entry.include :
               UnwrapOrTrue(FilterFiltered(entry.include[i], path, kind))
    THEN "pass"
    ELSE "reject"

\* FilterAccepted::filtered(path), for one filter that compiles and one path:
\* Some(true), Some(false) or None
FilterTest ==
    probe = NoProbe /\ \E f \in {g \in Filters : FilterTryInto(g)}, path \in ProbePaths,
                          kind \in PathKinds :
       /\ probe' = [probe EXCEPT !.call = "filtered", !.given = f, !.path = path,
                                 !.kind = kind,
                                 !.verdict = CASE FilterFiltered(f, path, kind) = "match" -> "Some(true)"
                                               [] FilterFiltered(f, path, kind) = "nomatch" -> "Some(false)"
                                               [] OTHER -> "None"]
       /\ UNCHANGED <<opt, tracking, progress, checked, fs, breaker, walker, user, cc, cchan, cw, hc, hchan, hw, hist>>

\* Worker::run: entry.filtered(&path), for a path that read_dir() gave
EntryFiltered ==
    (/\ probe.cx = <<>> /\ probe.chain = <<>> /\ probe.batch = <<>> /\ probe.strategy = <<>>
     /\ probe.verdict = "untested")
    /\ \E path \in ProbePaths, kind \in PathKinds :
       /\ probe' = [probe EXCEPT !.path = path, !.kind = kind,
                                 !.out = EntryFilteredOf(probe, path, kind)]
       /\ UNCHANGED <<opt, tracking, progress, checked, fs, breaker, walker, user, cc, cchan, cw, hc, hchan, hw, hist>>

\* the lines a context file can hold, and the rule sets made of them
Rules == {Rule(k, n) : k \in 0..NumRootFiles, n \in BOOLEAN}
RuleLists == {rs \in SUBSET Rules : Cardinality(rs) <= MaxRules}
RuleSets == [accept : RuleLists, ignore : RuleLists]

\* Context::filtered on a rule set: ContextPatterns::filtered(path)
ContextTest ==
    probe = NoProbe /\ \E cx \in RuleSets, path \in ProbePaths, kind \in PathKinds :
       /\ probe' = [probe EXCEPT !.cx = <<cx>>, !.path = path, !.kind = kind,
                                 !.out = IF ContextPatternsFiltered(cx, path, kind = "file")
                                         THEN "pass" ELSE "reject"]
       /\ UNCHANGED <<opt, tracking, progress, checked, fs, breaker, walker, user, cc, cchan, cw, hc, hchan, hw, hist>>

\* the rule sets the context files of one directory give, and the
\* directories of a branch of the tree, from the root down
ChainRuleLists == {rs \in SUBSET Rules : Cardinality(rs) <= MaxChainRules}
ChainRuleSets == [accept : ChainRuleLists, ignore : ChainRuleLists]
ChainDirs == <<Root, SubDir>>

\* collect(): context.consider(&next) for the directories of a branch, the
\* parent before the child
ContextConsider ==
    (/\ probe.out = "none" /\ probe.cx = <<>> /\ probe.added = "none" /\ probe.batch = <<>>
     /\ probe.strategy = <<>> /\ probe.verdict = "untested"
     /\ Len(probe.chain) < Len(ChainDirs))
    /\ \E own \in ChainRuleSets :
       /\ probe' = [probe EXCEPT
                       !.chain = Append(@, own),
                       !.context = ConsiderRules(@, ChainDirs[Len(probe.chain) + 1], own)]
       /\ UNCHANGED <<opt, tracking, progress, checked, fs, breaker, walker, user, cc, cchan, cw, hc, hchan, hw, hist>>

\* collect(): context.filtered(path), for a path of the branch
ContextChainTest ==
    Len(probe.chain) = Len(ChainDirs) /\ \E path \in ProbePaths :
       /\ probe' = [probe EXCEPT !.path = path,
                                 !.kind = IF IsFile(path) THEN "file" ELSE "dir",
                                 !.out = IF ContextFiltered(probe.context, path)
                                         THEN "pass" ELSE "reject"]
       /\ UNCHANGED <<opt, tracking, progress, checked, fs, breaker, walker, user, cc, cchan, cw, hc, hchan, hw, hist>>

\* a path list of a given length for hash(): files that are there, and, if
\* marked, every third item one that collect() left with an error
PathList(total, marked) ==
    [i \in 1..total |-> IF marked /\ i % MarkEvery = 0 THEN HashErr(SubDir, "IO")
                        ELSE Unhashed(CHOOSE f \in RootFiles : TRUE)]

\* Walker::hash: paths_per_jobs for a list of a given length; the list
\* itself is kept for the short ones
BatchSize ==
    probe = NoProbe /\ \E total \in 0..MaxTotal, marked \in BOOLEAN :
       /\ total > MaxBatchedTotal => ~marked
       /\ probe' = [probe EXCEPT !.batch =
                       <<[total |-> total, perJob |-> PathsPerJob(total),
                          queue |-> IF total <= MaxBatchedTotal
                                    THEN PathList(total, marked) ELSE <<>>,
                          lens |-> <<>>]>>]
       /\ UNCHANGED <<opt, tracking, progress, checked, fs, breaker, walker, user, cc, cchan, cw, hc, hchan, hw, hist>>

\* hash(), `fn deligate`: get_next_job, and the batch handed to a worker
\* unless it is empty
NextBatch ==
    /\ probe.batch # <<>>
    /\ probe.batch[1].queue # <<>>
    /\ LET b == probe.batch[1]
           job == GetNextJob(b.queue, b.perJob, <<>>, <<>>)
       IN probe' = [probe EXCEPT !.batch =
                      <<[b EXCEPT !.queue = job.paths,
                                  !.lens = IF job.jobs = <<>> THEN @
                                           ELSE Append(@, Len(job.jobs))]>>]
    /\ UNCHANGED <<opt, tracking, progress, checked, fs, breaker, walker, user, cc, cchan, cw, hc, hchan, hw, hist>>

\* ------------------------------------------- options: the reading strategy
\* a strategy nested in a Scenario: one that reads, or a Scenario again
NestedStrategies == {"Buffer", "Scenario"}
\* (Range<u64>, Box<ReadingStrategy>): start..end holds start <= n < end
SizeRanges == [start : 0..MaxSize, end : 0..MaxSize, strategy : NestedStrategies]
\* ReadingStrategy::Scenario(Vec<..>)
Scenarios == UNION {[1..k -> SizeRanges] : k \in 0..MaxRanges}
\* Range::contains
RangeContains(r, n) == r.start <= n /\ n < r.end

\* Options::reading_strategy over a Scenario, from its i-th pair on
RECURSIVE CheckScenario(_, _, _)
CheckScenario(scenario, i, from) ==
    IF i > Len(scenario) THEN "Ok"
    ELSE IF scenario[i].strategy = "Scenario" THEN "NestedScenarioStrategy"
    ELSE IF scenario[i].start # from THEN "InvalidRangesForScenarioStrategy"
    ELSE CheckScenario(scenario, i + 1, scenario[i].end)

\* hash_file: scenario.iter().find_map(..): the first range that holds the
\* size, 0 when none does
FindRange(scenario, size) ==
    LET hits == {i \in DOMAIN scenario : RangeContains(scenario[i], size)}
    IN IF hits = {} THEN 0 ELSE CHOOSE i \in hits : \A j \in hits : i <= j

\* Options::reading_strategy
OptionsReadingStrategy ==
    probe = NoProbe /\ \E scenario \in Scenarios :
       /\ probe' = [probe EXCEPT !.strategy =
                       <<[given |-> scenario, out |-> CheckScenario(scenario, 1, 0),
                          size |-> 0, range |-> 0, read |-> "none"]>>]
       /\ UNCHANGED <<opt, tracking, progress, checked, fs, breaker, walker, user, cc, cchan, cw, hc, hchan, hw, hist>>

\* hash_file under the Scenario the Options took, over a file of any size
HashFile ==
    /\ probe.strategy # <<>>
    /\ probe.strategy[1].out = "Ok" /\ probe.strategy[1].read = "none"
    /\ \E size \in 0..MaxSize :
          LET sc == probe.strategy[1].given
              i == FindRange(sc, size)
          IN probe' = [probe EXCEPT !.strategy =
                          <<[probe.strategy[1] EXCEPT
                               !.size = size, !.range = i,
                               !.read = IF i = 0 THEN "NoRangeForScenarioStrategy"
                                        ELSE IF sc[i].strategy = "Scenario"
                                        THEN "NestedScenarioStrategy" ELSE "Ok"]>>]
    /\ UNCHANGED <<opt, tracking, progress, checked, fs, breaker, walker, user, cc, cchan, cw, hc, hchan, hw, hist>>

\* ================================================== tracking: is_same()
\* PreviousHash::default(): what Storage::get_or_default gives for an alias
\* it holds nothing under
DefaultHash == <<>>
\* `phash.hash == nhash` over storage.get_or_default(&alias)
SameAsStored(stored, nhash) ==
    (IF stored = <<>> THEN DefaultHash ELSE stored[1]) = nhash

\* Tracking::is_same, up to its call of collect()
IsSame ==
    /\ ~tracking.busy
    /\ user.pc = "idle"
    /\ tracking.calls < MaxChecks
    /\ tracking' = [tracking EXCEPT !.busy = TRUE, !.runs = user.runs, !.calls = @ + 1,
                                    !.out = "none"]
    /\ UNCHANGED <<opt, checked, fs, breaker, walker, user, cc, cchan, cw, hc, hchan, hw,
                   hist, probe, progress>>

\* is_same: `self.collect()?`
IsSameCollect == tracking.busy /\ user.runs = tracking.runs /\ CallCollect
\* is_same: `.hash::<H, R>()?` over the Walker collect() returned
IsSameHash ==
    /\ tracking.busy /\ user.runs # tracking.runs
    /\ user.res.op = "collect" /\ user.res.kind = "Ok"
    /\ CallHash

\* is_same: the `?` of a call that failed, or the comparison with the entry
\* of the storage, the write of the new digest and the return
IsSameReturn ==
    /\ tracking.busy /\ user.runs # tracking.runs
    /\ user.pc = "idle"
    /\ user.res.op = "hash" \/ user.res.kind # "Ok"
    /\ IF user.res.kind # "Ok"
       THEN tracking' = [tracking EXCEPT !.busy = FALSE, !.out = "Err"]
       ELSE tracking' = [tracking EXCEPT
                           !.busy = FALSE,
                           !.out = IF SameAsStored(tracking.stored, user.res.digest)
                                   THEN "true" ELSE "false",
                           !.stored = <<user.res.digest>>,
                           !.before = tracking.known,
                           !.known = <<fs>>]
    /\ UNCHANGED <<opt, checked, fs, breaker, walker, user, cc, cchan, cw, hc, hchan, hw,
                   hist, probe, progress>>

\* ========================================================= specifications
CollectStep ==
    \/ CStart \/ CRecv \/ CTry \/ CShutdown \/ CJoin
    \/ \E w \in DOMAIN cw : CWorkerRecv(w) \/ CWorkerEntry(w)

HashStep ==
    \/ HInit \/ HRecv \/ HDown \/ HWait \/ HJoin
    \/ \E w \in DOMAIN hw : \/ HWorkerRecv(w) \/ HWorkerFile(w) \/ HWorkerRead(w)
                          \/ HWorkerExit(w) \/ HWorkerNotify(w)

FileStep == Rewrite \/ Remove \/ Protect \/ Create \/ Rename

\* the caller and a tree that changes between the calls, no Breaker::abort
Quiet ==
    \/ user.runs < MaxRuns /\ CallCollect
    \/ user.hashes < MaxHashes /\ CallHash
    \/ FileStep \/ CollectStep \/ HashStep

\* the caller, a tree that stays as it is, and Breaker::abort at any moment
Next ==
    \/ user.runs < MaxAbortRuns /\ CallCollect
    \/ user.hashes < MaxAbortHashes /\ CallHash
    \/ CollectStep \/ HashStep \/ Abort

\* an Entry is built and paths are tested against it, or a path is tested
\* against a rule set of context files
NextFilters ==
    \/ EntryInclude \/ EntryExclude \/ EntryPattern \/ EntryFiltered
    \/ ContextTest \/ ContextConsider \/ ContextChainTest
    \/ BatchSize \/ NextBatch
    \/ OptionsReadingStrategy \/ HashFile
    \/ FilterTest

\* Options::threads, called with any count
OptionsThreads ==
    probe = NoProbe /\ \E n \in 0..(ThreadsLimit + 1) :
       /\ probe' = [probe EXCEPT !.threads =
                       <<[n |-> n,
                          out |-> IF n < MIN_THREADS_COUNT THEN "InvalidNumberOfThreads"
                                  ELSE IF n > Cores * MAX_THREADS_MLT_TO_CORES
                                  THEN "NotOptimalNumberOfThreads"
                                  ELSE "Ok"]>>]
       /\ UNCHANGED <<opt, tracking, progress, checked, fs, breaker, walker, user, cc, cchan, cw, hc, hchan, hw, hist>>

\* the caller over Options that hold any count of threads
NextThreads ==
    \/ user.runs < MaxRuns /\ CallCollect
    \/ user.hashes < MaxHashes /\ CallHash
    \/ CollectStep \/ HashStep \/ OptionsThreads

\* the caller of is_same, and a tree that changes between the calls
NextTracking ==
    \/ IsSame \/ IsSameCollect \/ IsSameHash \/ IsSameReturn
    \/ CollectStep \/ HashStep
    \/ ~tracking.busy /\ FileStep

\* the caller, a tree that stays as it is, and a consumer of the ticks
NextProgress ==
    \/ user.runs < MaxRuns /\ CallCollect
    \/ user.hashes < MaxHashes /\ CallHash
    \/ CollectStep \/ HashStep
    \/ WalkerProgress \/ TickRecv \/ ReceiverDrop \/ ProgressReplaced

Spec == Init /\ [][Next]_vars

SpecQuiet == Init /\ [][Quiet]_vars

\* the filters alone, under one choice of the options and of the tree
InitFilters ==
    /\ Init
    /\ opt = [tolerance |-> "LogErrors", threads |-> 1, context |-> "none",
              entries |-> <<Root>>]
    /\ fs.subdir = "ok" /\ ~fs.bad /\ \A f \in AllFiles : fs.stat[f] = "ok"

SpecFilters == InitFilters /\ [][NextFilters]_vars

\* every capacity of Options.progress, under a pool of one worker
InitProgress == WalkerNew({1}, Capacities)

SpecProgress == InitProgress /\ [][NextProgress]_vars

\* Options built field by field: no check has seen the count of threads
InitThreads == WalkerNew(0..(ThreadsLimit + 1), {NoChannel})

SpecThreads == InitThreads /\ [][NextThreads]_vars

SpecTracking == Init /\ [][NextTracking]_vars

\* Options with two entries, one inside the other, in either order
EntryLists == {<<SubDir, Root>>, <<Root, SubDir>>}
InitEntries == WalkerOver(1..MaxThreads, {NoChannel}, EntryLists)
\* the caller of a Walker over several entries
NextEntries ==
    \/ user.runs < MaxRuns /\ CallCollect
    \/ user.hashes < MaxHashes /\ CallHash
    \/ CollectStep \/ HashStep
SpecEntries == InitEntries /\ [][NextEntries]_vars

\* ============================================================= properties
\* The directories above a path, the root among them
RECURSIVE AncestorDirs(_)
AncestorDirs(path) ==
    IF path = Root THEN {} ELSE {Parent(path)} \cup AncestorDirs(Parent(path))

\* The lines of the context file of a directory of a tree, if the entry names
\* a context file and the directory holds one
ContextLines(tree, dir) ==
    IF opt.context = "none" \/ tree.stat[dir \o <<ContextFilename>>] = "missing" THEN {}
    ELSE Parse(tree.content[dir \o <<ContextFilename>>])

\* A path is ignored when a line of a context file of a directory above it
\* matches it; a file is accepted when neither it nor a directory on the way
\* to it is ignored
Ignored(tree, path) ==
    \E d \in AncestorDirs(path) : \E r \in ContextLines(tree, d) : MatchesPath(r, path)
Accepted(tree, f) ==
    ~Ignored(tree, f) /\ \A d \in AncestorDirs(f) : ~Ignored(tree, d)

\* The files of a tree that a run reads to the end: those accepted, present
\* and readable, the one of the subdirectory only if the directory can be
\* listed.
Readable(tree) ==
    {f \in AllFiles : /\ tree.stat[f] = "ok" /\ (f = SubFile => tree.subdir = "ok")
                      /\ Accepted(tree, f)}

\* The least path of a non-empty set of paths
LeastPath(S) == CHOOSE p \in S : \A q \in S : q = p \/ PathLess(p, q)

\* The digests of the files of S in ascending order of path, absorbed one
\* after another into h
RECURSIVE AbsorbAscending(_, _, _)
AbsorbAscending(h, S, tree) ==
    IF S = {} THEN h
    ELSE LET p == LeastPath(S)
         IN AbsorbAscending(
                HasherAbsorb(h, HasherHash(HasherAbsorb(HasherNew, ContentBytes(tree.content[p])))),
                S \ {p}, tree)

\* The digest a tree determines: nothing of the options, of the pool or of
\* the schedule enters it
TreeDigest(tree) ==
    IF Readable(tree) = {} THEN <<>>
    ELSE HasherHash(AbsorbAscending(HasherNew, Readable(tree), tree))

\* C1: the digest that collect() followed by hash() returns over a tree that
\* stays as it is depends on the tree alone: it is the same for every
\* interleaving of the threads, every number of workers and every order in
\* which entries are enumerated or results are reported.
C1_DigestIsDeterministic ==
    hist.last.valid => hist.last.digest = TreeDigest(hist.last.fs)

\* C1: a run with the largest pool over the tree with the most files, whose
\* batches went to more than one worker, has returned its digest
C1_Witness ==
    /\ hist.last.valid
    /\ opt.threads = MaxThreads
    /\ Cardinality(Readable(hist.last.fs)) = NumRootFiles + 1
    /\ user.pc = "idle" /\ user.res.op = "hash" /\ user.hashes = 1

\* The items of a path list that hold a digest, and the digest of each
OkItems(items) == {i \in SeqToSet(items) : i.tag = "Ok"}
DigestAt(items, p) == (CHOOSE i \in OkItems(items) : i.path = p).hash

\* The digests of the paths of S, in ascending order of path, absorbed into h
RECURSIVE AbsorbByPath(_, _, _)
AbsorbByPath(h, S, items) ==
    IF S = {} THEN h
    ELSE LET p == LeastPath(S)
         IN AbsorbByPath(HasherAbsorb(h, DigestAt(items, p)), S \ {p}, items)

\* hash() has returned Ok to the caller, who has made no call since
HashedOk == user.pc = "idle" /\ user.res.op = "hash" /\ user.res.kind = "Ok"

\* C2: when hash() returns Ok with at least one file hashed, the digest it
\* returns is a fresh digest that absorbed, in ascending order of path,
\* exactly the digests of the items in state HashOk, and was finalized once;
\* the items in state HashErr add nothing.
C2_DigestAbsorbsOkItemsInPathOrder ==
    (HashedOk /\ OkItems(walker.paths) # {}) =>
        user.res.digest =
            HasherHash(AbsorbByPath(HasherNew, {i.path : i \in OkItems(walker.paths)},
                                    walker.paths))

\* C2: hash() has returned Ok over a list that holds an item in state HashErr
\* between two items in state HashOk
C2_Witness ==
    /\ HashedOk
    /\ \E a \in OkItems(walker.paths), b \in OkItems(walker.paths), e \in SeqToSet(walker.paths) :
          e.tag = "Err" /\ PathLess(a.path, e.path) /\ PathLess(e.path, b.path)

\* Two runs, each a collect() and a hash() that succeed over a tree that is
\* left alone meanwhile, one after the other
TwoRuns == hist.prev.valid /\ hist.last.valid

\* Between the two runs the content of a file that both runs read has
\* changed, and nothing else
ContentChanged(a, b) ==
    /\ a.stat = b.stat /\ a.subdir = b.subdir /\ a.bad = b.bad
    /\ \E f \in Readable(a) : a.content[f] # b.content[f]

\* C3: if the content of an accepted file changes between two runs and
\* nothing else does, the digest of the second collect() and hash() differs
\* from the digest of the first (the digest of a file taken as free of
\* collisions; the file is one that both runs can read).
C3_ContentChangeChangesDigest ==
    (TwoRuns /\ ContentChanged(hist.prev.fs, hist.last.fs)) =>
        hist.prev.digest # hist.last.digest

\* C3: a second run has returned its digest over a tree in which a file was
\* rewritten after the first run
C3_Witness ==
    /\ TwoRuns /\ ContentChanged(hist.prev.fs, hist.last.fs)
    /\ user.pc = "idle" /\ user.runs = 2 /\ user.res.op = "hash"

\* Between the two runs the set of the files has changed (a file added,
\* removed, renamed or moved), every file is readable, and a file found in
\* both trees has the content it had
StructureChanged(a, b) ==
    /\ a.subdir = "ok" /\ b.subdir = "ok" /\ ~a.bad /\ ~b.bad
    /\ \A f \in AllFiles : a.stat[f] # "unreadable" /\ b.stat[f] # "unreadable"
    /\ Readable(a) # Readable(b)
    /\ \A f \in Readable(a) \cap Readable(b) : a.content[f] = b.content[f]

\* C4: a structural change under the entry (an accepted file added, removed,
\* renamed or moved, its content unchanged) makes collect() and hash() return
\* a digest different from the one returned before the change.
C4_StructuralChangeChangesDigest ==
    (TwoRuns /\ StructureChanged(hist.prev.fs, hist.last.fs)) =>
        hist.prev.digest # hist.last.digest

\* C5: on a Walker that holds collected paths, two hash() calls one after the
\* other, with no collect() between them and a tree that stays as it is,
\* return equal byte vectors, which are not empty when the first is not.
C5_RehashReturnsSameDigest ==
    (/\ user.pc = "idle" /\ user.res.op = "hash" /\ user.hashes = 2 /\ user.runs > 0
     /\ ~hist.fsDirty
     /\ hist.first.kind = "Ok" /\ hist.first.digest # <<>>) =>
        (user.res.kind = "Ok" /\ user.res.digest = hist.first.digest)

\* collect() has returned Ok to the caller, who has made no call since
CollectedOk == user.pc = "idle" /\ user.res.op = "collect" /\ user.res.kind = "Ok"

\* C6: right after a collect() that succeeds every item of the path list is
\* Unhashed or HashErr, and right after a hash() that succeeds every item is
\* HashOk or HashErr: none is left Unhashed.
C6_ItemStates ==
    /\ CollectedOk => \A i \in SeqToSet(walker.paths) : i.tag \in {"None", "Err"}
    /\ HashedOk => \A i \in SeqToSet(walker.paths) : i.tag \in {"Ok", "Err"}

\* C6: the hash() of a second run has returned Ok over a list that holds
\* items of both states
C6_Witness ==
    /\ HashedOk /\ user.runs = 2
    /\ \E i \in SeqToSet(walker.paths) : i.tag = "Ok"
    /\ \E i \in SeqToSet(walker.paths) : i.tag = "Err"

\* C7: under LogErrors or DoNotLogErrors the paths of the list after a hash()
\* that succeeds are the paths the preceding collect() left in it, and a path
\* that collect() marked with an error is still there with that error.
C7_HashKeepsEveryPath ==
    (HashedOk /\ user.hashes = 1 /\ opt.tolerance # "StopOnErrors") =>
        /\ {i.path : i \in SeqToSet(walker.paths)} = {i.path : i \in hist.atHash}
        /\ \A i \in hist.atHash : i.tag = "Err" => i \in SeqToSet(walker.paths)

\* collect() has returned to the caller after the token was raised while the
\* call was running (between the reset at its entry and its return)
CollectAborted == user.pc = "idle" /\ user.res.op = "collect" /\ hist.abortedRun

\* C8: if the token is raised before the traversal starts or at any moment
\* while it runs, collect() terminates (while it runs some thread of it can
\* take a step) and its result is Aborted: never Ok, never another error,
\* under every tolerance and every interleaving.
C8_AbortedCollectReturnsAborted ==
    /\ (user.pc = "collect" /\ breaker) => ENABLED CollectStep
    /\ CollectAborted => user.res.kind = "Aborted"

\* hash() has returned to the caller after the token was raised while batches
\* were outstanding
HashAborted == user.pc = "idle" /\ user.res.op = "hash" /\ hist.abortedBusy

\* C9: if the token is raised while hash() has batches outstanding, hash()
\* terminates (while it runs some thread of it can take a step) and its
\* result is Aborted.
C9_AbortedHashReturnsAborted ==
    /\ (user.pc = "hash" /\ breaker) => ENABLED HashStep
    /\ HashAborted => user.res.kind = "Aborted"

\* The token was up when collect() was called and was not raised again
\* before the call returned
CollectAfterAbort ==
    user.pc = "idle" /\ user.res.op = "collect" /\ hist.preAborted /\ ~hist.abortedRun

\* The token was raised after collect() and was up when hash() was called
HashAfterAbort == user.pc = "idle" /\ user.res.op = "hash" /\ hist.preAborted

\* C10: collect() clears the token at entry, so that an abort() before the
\* call does not make it return Aborted; hash() never clears it, so that an
\* abort() after collect() makes a following hash() over a path list that is
\* not empty return Aborted.
C10_TokenResetByCollectOnly ==
    /\ CollectAfterAbort => user.res.kind # "Aborted"
    /\ (HashAfterAbort /\ hist.atHash # {}) => user.res.kind = "Aborted"

\* The path list holds an Unhashed item, and the file of every Unhashed item
\* is still in place
SomethingToHash ==
    /\ \E i \in hist.atHash : i.tag = "None"
    /\ \A i \in hist.atHash : i.tag = "None" => fs.stat[i.path] # "missing"

\* C10, amended: collect() clears the token at entry, so that an abort()
\* before the call does not make it return Aborted; hash() never clears it,
\* so that an abort() after collect() makes a following hash() return Aborted
\* when its path list holds an Unhashed item whose file is still in place.
C10_TokenResetByCollectOnlyAmended ==
    /\ CollectAfterAbort => user.res.kind # "Aborted"
    /\ (HashAfterAbort /\ SomethingToHash) => user.res.kind = "Aborted"

\* C10: a hash() called with the token up on the largest pool, over a list
\* with files to hash, has returned Aborted
C10_Witness ==
    /\ HashAfterAbort /\ SomethingToHash
    /\ user.res.kind = "Aborted"
    /\ opt.threads = MaxThreads

\* hash() has returned to a caller whose path list was empty at the call
HashedNothing == user.pc = "idle" /\ user.res.op = "hash" /\ hist.atHash = {}

\* C11: hash() on a Walker whose path list is empty (the entry directory holds
\* no file, or no collect() came before) returns Ok with a zero-length
\* digest, the list stays empty (count() is 0) and no error is reported.
C11_EmptyListHashesToNothing ==
    HashedNothing =>
        /\ user.res.kind = "Ok" /\ user.res.digest = <<>>
        /\ Len(walker.paths) = 0

\* C11: hash() has returned after a collect() that succeeded over a tree from
\* which the last file was removed
C11_Witness ==
    /\ HashedNothing /\ user.runs = 2
    /\ \A f \in AllFiles : fs.stat[f] = "missing"
    /\ fs.subdir = "ok" /\ ~fs.bad

\* The paths of the tree at which the traversal meets an IO error: a
\* subdirectory that cannot be listed, a directory entry that cannot be read
FailingPaths ==
    (IF fs.subdir = "unreadable" THEN {SubDir} ELSE {})
        \cup (IF fs.bad THEN {BadEntry} ELSE {})

\* collect() has returned to the caller, who has made no call since
CollectReturned == user.pc = "idle" /\ user.res.op = "collect"

\* C12: under StopOnErrors the first IO error met during the traversal makes
\* collect() return that error wrapped as Bound(path, inner), with the path
\* at which it was met.
C12_StopOnErrorsReturnsBound ==
    (CollectReturned /\ opt.tolerance = "StopOnErrors" /\ FailingPaths # {}) =>
        /\ user.res.kind = "Bound"
        /\ user.res.inner = "IO"
        /\ user.res.path \in FailingPaths

CShutdownQueued(w) == \E i \in 1..Len(cw[w].tasks) : cw[w].tasks[i].t = "Shutdown"
HShutdownQueued(w) == \E i \in 1..Len(hw[w].tasks) : hw[w].tasks[i].t = "Shutdown"

C14_TolerantCollectReturnsNoIOError ==
    (CollectReturned /\ opt.tolerance # "StopOnErrors") =>
        ~(user.res.kind = "CollectorError" /\ user.res.inner = "IO")

\* C15: with no abort, collect() under LogErrors or DoNotLogErrors returns for
\* every tree, every number of workers and every interleaving, also when the
\* workers report errors of single entries or failed directory reads: while
\* the call runs some thread of it can take a step, and the coordinator
\* leaves its loop by its own test and not by a panic.
C15_TolerantCollectTerminates ==
    /\ (user.pc = "collect" /\ opt.tolerance # "StopOnErrors") => ENABLED CollectStep
    /\ (CollectReturned /\ opt.tolerance # "StopOnErrors") => user.res.inner # "JoinError"

\* The files a traversal of a tree is to find: those present whose directory
\* can be listed and which the context rules accept, whether or not they can
\* be read (the entry carries no filter and no pattern)
Listed(tree) ==
    {f \in AllFiles : /\ tree.stat[f] # "missing" /\ (f = SubFile => tree.subdir = "ok")
                      /\ Accepted(tree, f)}

\* The paths of the items of a path list that are to be hashed, in order
RECURSIVE UnhashedPaths(_)
UnhashedPaths(items) ==
    IF items = <<>> THEN <<>>
    ELSE (IF Head(items).tag = "None" THEN <<Head(items).path>> ELSE <<>>)
            \o UnhashedPaths(Tail(items))

\* C16: collect() does not end early: when it returns Ok over a tree that
\* stayed as it is, the list holds every file of the tree that the context
\* rules accept and whose directories they accept, each exactly once, and no
\* other file, for every interleaving and every number of workers.
C16_CollectIsComplete ==
    (CollectedOk /\ ~hist.fsDirty) =>
        LET ps == UnhashedPaths(walker.paths)
        IN /\ SeqToSet(ps) = Listed(fs)
           /\ Len(ps) = Cardinality(Listed(fs))

\* C16: collect() has returned Ok with more than one worker over a tree in
\* which a context rule of the root ignores the subdirectory, which can be
\* listed and holds a file, and a file of the root, and accepts another
C16_Witness ==
    /\ CollectedOk /\ ~hist.fsDirty
    /\ opt.threads > 1
    /\ fs.subdir = "ok" /\ fs.stat[SubFile] # "missing" /\ Ignored(fs, SubDir)
    /\ \E f \in RootFiles : fs.stat[f] # "missing" /\ Ignored(fs, f)
    /\ Listed(fs) # {}

\* A path has been tested against the Entry
Tested == probe.cx = <<>> /\ probe.chain = <<>> /\ probe.out # "none"

\* A pattern accepts a path: Ignore when its glob does not match, Accept when
\* it matches, a combination when each of its elements accepts
RECURSIVE Accepts(_, _)
Accepts(p, path) ==
    CASE p.k = "Ignore" -> ~GlobMatches(p.g, path)
      [] p.k = "Accept" -> GlobMatches(p.g, path)
      [] p.k = "Cmb" -> \A i \in DOMAIN p.xs : Accepts(p.xs[i], path)

\* C17: with a pattern list that is not empty, Entry::filtered passes a path
\* if and only if at least one pattern of the list accepts it, whatever the
\* include and exclude filters are.
C17_PatternsDecideAlone ==
    (Tested /\ probe.patterns # <<>>) =>
        probe.out = IF \E i \in DOMAIN probe.patterns : Accepts(probe.patterns[i], probe.path)
                    THEN "pass" ELSE "reject"

\* A combination that holds a combination
Nested(p) == p.k = "Cmb" /\ \E i \in DOMAIN p.xs : p.xs[i].k = "Cmb"

\* A filter applies to a path of its type: Files to a file, Folders to a
\* directory, Common to any path; and it matches the path when its glob
\* matches the file name (Files) or the whole path (Folders, Common)
Applicable(f, kind) ==
    \/ f.k = "Common"
    \/ f.k = "Files" /\ kind = "file"
    \/ f.k = "Folders" /\ kind = "dir"
FilterMatches(f, path) ==
    GlobMatches(f.g, IF f.k = "Files" THEN SubSeq(path, Len(path), Len(path)) ELSE path)

\* an exclude filter of the Entry applies to the tested path and matches it
Excluded ==
    \E i \in DOMAIN probe.exclude :
       Applicable(probe.exclude[i], probe.kind) /\ FilterMatches(probe.exclude[i], probe.path)

\* an include filter of the Entry matches the tested path or does not apply
Included ==
    \E i \in DOMAIN probe.include :
       ~Applicable(probe.include[i], probe.kind) \/ FilterMatches(probe.include[i], probe.path)

\* C18: with an empty pattern list, Entry::filtered rejects a path that an
\* exclude filter applicable to its type matches, even if an include filter
\* matches it too; any other path it accepts when the include list is empty
\* or an include filter matches the path or does not apply to its type, and
\* rejects otherwise.
C18_ExcludeThenInclude ==
    (Tested /\ probe.patterns = <<>>) =>
        probe.out = IF Excluded THEN "reject"
                    ELSE IF probe.include = <<>> \/ Included THEN "pass"
                    ELSE "reject"

\* C18: a path was tested that an exclude filter and an include filter, both
\* applicable to its type, match
C18_Witness ==
    /\ Tested /\ probe.patterns = <<>>
    /\ Excluded /\ probe.out = "reject"
    /\ \E i \in DOMAIN probe.include :
          /\ Applicable(probe.include[i], probe.kind)
          /\ FilterMatches(probe.include[i], probe.path)

\* C19: Entry::pattern returns Err for a combination that holds a
\* combination, no Entry holds such a pattern, and no test of a path against
\* an Entry panics.
C19_NestedCmbRejected ==
    /\ (probe.added # "none" /\ Nested(probe.given)) => probe.added = "Err"
    /\ \A i \in DOMAIN probe.patterns : ~Nested(probe.patterns[i])
    /\ probe.out # "panic"

\* A path has been tested against a rule set of context files
ContextTested == probe.cx # <<>>

\* C20: the context test passes a path exactly when it matches a negative
\* ignore rule and the accept list is empty, or it matches no other ignore
\* rule and the accept list is empty, or the path is no file, or it matches
\* an accept rule that is not negative and no negative one.
C20_ContextDecision ==
    ContextTested =>
        LET cx == probe.cx[1]
            hit(rules, negative) ==
                \E r \in rules : r.negative = negative /\ MatchesPath(r, probe.path)
        IN (probe.out = "pass") <=>
              \/ cx.accept = {} /\ hit(cx.ignore, TRUE)
              \/ /\ ~hit(cx.ignore, FALSE)
                 /\ \/ cx.accept = {}
                    \/ probe.kind # "file"
                    \/ ~hit(cx.accept, TRUE) /\ hit(cx.accept, FALSE)

\* C20: a path passed that matches an ignore rule and a negative ignore rule,
\* with no accept rule
C20_Witness ==
    /\ ContextTested /\ probe.out = "pass"
    /\ probe.cx[1].accept = {}
    /\ \E r \in probe.cx[1].ignore : ~r.negative /\ MatchesPath(r, probe.path)
    /\ \E r \in probe.cx[1].ignore : r.negative /\ MatchesPath(r, probe.path)

\* A path has been tested against the context of a branch whose directories
\* were all considered
ChainTested == Len(probe.chain) = Len(ChainDirs) /\ probe.out # "none"

\* The rules the context files of a directory gave
OwnRules(dir) == probe.chain[CHOOSE i \in DOMAIN ChainDirs : ChainDirs[i] = dir]

\* The rules of the context files of every directory above a path
UnionRules(path) ==
    [accept |-> UNION {OwnRules(d).accept : d \in AncestorDirs(path)},
     ignore |-> UNION {OwnRules(d).ignore : d \in AncestorDirs(path)}]

\* a rule of the given polarity in a list matches the tested path
ProbeHit(rules, negative) ==
    \E r \in rules : r.negative = negative /\ MatchesPath(r, probe.path)

\* C21: a rule of a context file of a directory D acts on every path below D
\* and on no other: a path above whose directories no file gave a rule passes;
\* a path that an ignore rule of a directory above it matches, and no negative
\* ignore rule of such a directory, is rejected; a file that matches no accept
\* rule of the directories above it, one of which gave accept rules, is
\* rejected.
C21_RuleScope ==
    ChainTested =>
        LET all == UnionRules(probe.path)
        IN /\ (all.accept = {} /\ all.ignore = {}) => probe.out = "pass"
           /\ (ProbeHit(all.ignore, FALSE) /\ ~ProbeHit(all.ignore, TRUE))
                 => probe.out = "reject"
           /\ (probe.kind = "file" /\ all.accept # {} /\ ~ProbeHit(all.accept, FALSE))
                 => probe.out = "reject"

\* C22: the context in force for a path is the union of the rules of every
\* directory above it: the test of the path gives what the rules of all these
\* directories, accept and ignore, give together.
C22_ContextIsUnion ==
    ChainTested =>
        ((probe.out = "pass")
            <=> ContextPatternsFiltered(UnionRules(probe.path), probe.path, probe.kind = "file"))

\* The first hash() after a collect() has returned Ok under a tolerance that
\* keeps errors in the list
HashedTolerant == HashedOk /\ user.hashes = 1 /\ opt.tolerance # "StopOnErrors"

\* The places of a path in the path list
PlacesOf(path) == {k \in DOMAIN walker.paths : walker.paths[k].path = path}

\* C23: when hash() returns Ok under LogErrors or DoNotLogErrors, every path
\* that was Unhashed when it was called is in the list exactly once, as
\* HashOk or as HashErr, and a file that was gone by then is there as one
\* HashErr: no result is lost and none is recorded twice.
C23_EveryPathOnce ==
    HashedTolerant =>
        \A i \in hist.atHash :
           i.tag = "None" =>
              /\ Cardinality(PlacesOf(i.path)) = 1
              /\ \A k \in PlacesOf(i.path) :
                    /\ walker.paths[k].tag \in {"Ok", "Err"}
                    /\ hist.fsAtHash.stat[i.path] = "missing" => walker.paths[k].tag = "Err"

\* C23: hash() has returned Ok with more than one worker over a list of which
\* one file was removed after collect() and another was read
C23_Witness ==
    /\ HashedTolerant /\ opt.threads > 1
    /\ \E i \in hist.atHash : i.tag = "None" /\ hist.fsAtHash.stat[i.path] = "missing"
    /\ \E k \in DOMAIN walker.paths : walker.paths[k].tag = "Ok"

\* The paths that were Unhashed when hash() was called and were missing or
\* unreadable then
FailingAtHash ==
    {i.path : i \in {j \in hist.atHash : j.tag = "None" /\ hist.fsAtHash.stat[j.path] # "ok"}}

\* The first hash() after a collect() has returned to the caller
HashReturned == user.pc = "idle" /\ user.res.op = "hash" /\ user.hashes = 1

CeilOfTwentieth(total) == CHOOSE b \in 0..total : 20 * b >= total /\ 20 * (b - 1) < total

\* C25: for a list of T paths the batch size is the twentieth part of T,
\* rounded up, and no less than 2 nor more than 500; every batch handed to a
\* worker holds at least one path and at most that many, and every batch but
\* the last one built holds exactly that many.
C25_BatchSize ==
    probe.batch # <<>> =>
        LET b == probe.batch[1]
            c == CeilOfTwentieth(b.total)
        IN /\ b.perJob = IF c < MIN_PATHS_PER_JOB THEN MIN_PATHS_PER_JOB
                         ELSE IF c > MAX_PATHS_PER_JOB THEN MAX_PATHS_PER_JOB
                         ELSE c
           /\ \A i \in DOMAIN b.lens :
                 /\ b.lens[i] >= 1 /\ b.lens[i] <= b.perJob
                 /\ i < Len(b.lens) => b.lens[i] = b.perJob

\* C25: a list that holds items with an error was cut into several batches of
\* three paths and a last one of fewer
C25_Witness ==
    /\ probe.batch # <<>>
    /\ Len(probe.batch[1].lens) > 2
    /\ probe.batch[1].perJob > MIN_PATHS_PER_JOB
    /\ probe.batch[1].queue = <<>>
    /\ probe.batch[1].lens[Len(probe.batch[1].lens)] < probe.batch[1].perJob
    /\ probe.batch[1].total > Len(probe.batch[1].lens) * probe.batch[1].perJob

\* A coordinator holds a message of a worker that it has not matched yet
CollectPending == cc.pc = "recv" /\ cchan # <<>>
HashPending == hc.pc = "recv" /\ hchan # <<>>
\* What holds of the ticks whatever the capacity: the coordinator that holds
\* a message can always take its turn, the queue full or not; a bounded
\* queue never holds more than its capacity, and a full one is no failure:
\* a send fails only after the receiver was dropped; and the results are
\* those of a call without a channel: the list is the files of the tree, the
\* digest is the digest of the tree
TicksDoNotDisturb ==
    /\ CollectPending => ENABLED CRecv
    /\ HashPending => ENABLED HRecv
    /\ (progress.some /\ progress.capacity > 0) => progress.queue <= progress.capacity
    /\ progress.failed => progress.rx = "gone"
    /\ (progress.some /\ CollectedOk) => SeqToSet(UnhashedPaths(walker.paths)) = Listed(fs)
    /\ (progress.some /\ hist.last.valid) => hist.last.digest = TreeDigest(hist.last.fs)

\* C26: sending a progress tick never blocks collect() or hash(): with a
\* bounded channel whose queue is full the tick is dropped without error,
\* and the call ends and returns the paths and the digest it returns with no
\* progress channel; with capacity 0 the channel is unbounded and every tick
\* is enqueued.
C26_TicksNeverBlock ==
    /\ TicksDoNotDisturb
    /\ (progress.some /\ progress.capacity = 0) => ~progress.dropped /\ ~progress.failed

\* C26, amended: as above, but with capacity 0 every tick is enqueued only
\* while the receiver exists: once it is dropped, by the caller or by hash()
\* replacing the channel of a Walker whose receiver was never taken, the send
\* fails and the tick is lost, still without blocking.
C26_TicksNeverBlockAmended ==
    /\ TicksDoNotDisturb
    /\ (progress.some /\ progress.capacity = 0 /\ progress.rx # "gone") =>
           ~progress.dropped /\ ~progress.failed
    /\ (progress.some /\ progress.capacity = 0) => ~progress.dropped

\* C26: collect() has returned its list over a bounded channel that nobody
\* reads: the queue is full, a tick was dropped, no send has failed
C26_Witness ==
    /\ CollectedOk /\ walker.paths # <<>>
    /\ progress.some /\ progress.capacity > 0 /\ progress.rx = "walker"
    /\ progress.queue = progress.capacity /\ progress.dropped /\ ~progress.failed

\* The Options hold a count of threads that Options::threads refuses
BadThreads == opt.threads < 1 \/ opt.threads > 2 * Cores

\* C27: a thread count outside [1, 2 x cores] never produces a result:
\* Options::threads returns an error for 0 and for every count above
\* 2 x cores (and Ok for the counts between); with such a count placed in the
\* Options by hand, collect() does not hang and returns an error, which is
\* NoAvailableWorkers for a pool of no worker, the list of the Walker stays
\* empty, and a hash() that follows returns Ok with the empty digest.
C27_BadThreadsGiveNoResult ==
    /\ probe.threads # <<>> =>
          LET t == probe.threads[1]
          IN (t.out = "Ok") <=> (t.n >= 1 /\ t.n <= 2 * Cores)
    /\ BadThreads =>
          /\ user.pc = "collect" => ENABLED CollectStep
          /\ user.pc # "hash" /\ walker.paths = <<>>
          /\ CollectReturned =>
                /\ user.res.kind \notin {"Ok", "none"}
                /\ opt.threads = 0 => user.res.kind = "NoAvailableWorkers"
          /\ (user.pc = "idle" /\ user.res.op = "hash") =>
                user.res.kind = "Ok" /\ user.res.digest = <<>>

\* C27: over Options that hold no thread, collect() has returned its error
\* and the hash() after it has returned; Options::threads was asked for a
\* count above the limit
C27_Witness ==
    /\ opt.threads = 0 /\ user.runs = 1 /\ user.hashes = 1
    /\ user.pc = "idle" /\ user.res.op = "hash"
    /\ probe.threads # <<>> /\ probe.threads[1].n > 2 * Cores

\* The ranges of a Scenario fit together: no size lies in two of them, the
\* first starts at 0, each of the others starts where the one before it
\* ends, and no nested strategy is a Scenario
Overlapping(scenario) ==
    \E i, j \in DOMAIN scenario :
        i < j /\ \E n \in 0..MaxSize : RangeContains(scenario[i], n) /\ RangeContains(scenario[j], n)
Contiguous(scenario) ==
    \A i \in DOMAIN scenario :
        scenario[i].start = IF i = 1 THEN 0 ELSE scenario[i - 1].end
Flat(scenario) == \A i \in DOMAIN scenario : scenario[i].strategy # "Scenario"

\* C28: Options::reading_strategy accepts a Scenario only if its size ranges
\* are pairwise non-overlapping and contiguous starting at 0 and no nested
\* strategy is itself a Scenario; otherwise it returns
\* InvalidRangesForScenarioStrategy or NestedScenarioStrategy.  So for an
\* accepted Scenario every file size lies in at most one range.
C28_ScenarioRanges ==
    probe.strategy # <<>> =>
        LET s == probe.strategy[1]
            fits == ~Overlapping(s.given) /\ Contiguous(s.given) /\ Flat(s.given)
        IN /\ s.out = "Ok" => fits
           /\ ~fits => s.out \in {"InvalidRangesForScenarioStrategy", "NestedScenarioStrategy"}
           /\ s.read # "none" =>
                 Cardinality({i \in DOMAIN s.given : RangeContains(s.given[i], s.size)}) <= 1

\* is_same has returned true or false, and the caller has made no call since
Answered == ~tracking.busy /\ tracking.out \in {"true", "false"}

\* C29: the first is_same() for a configuration that was never checked
\* before returns false; every later call over a tree that is as the call
\* before it found it returns true; the first call after a change of the
\* tree returns false (and the next one true, the tree being as that call
\* found it).  Each call stores the digest it computed under the alias.
C29_TrackingRoundTrip ==
    Answered =>
        /\ tracking.before = <<>> => tracking.out = "false"
        /\ (tracking.before # <<>> /\ tracking.before = tracking.known) => tracking.out = "true"
        /\ (tracking.before # <<>> /\ tracking.before # tracking.known) => tracking.out = "false"
        /\ tracking.stored = <<user.res.digest>>

\* The Read tasks a traversal worker was handed and has not finished: those
\* in its queue, and the directory it is listing
ReadsQueued(w) == Cardinality({i \in DOMAIN cw[w].tasks : cw[w].tasks[i].t = "Read"})
Outstanding(w) == ReadsQueued(w) + IF cw[w].pc = "list" THEN 1 ELSE 0
RECURSIVE SumOutstanding(_)
SumOutstanding(ws) ==
    IF ws = {} THEN 0
    ELSE LET w == CHOOSE v \in ws : TRUE IN Outstanding(w) + SumOutstanding(ws \ {w})
\* The Processed messages the coordinator has not handled yet
ProcessedInFlight ==
    Cardinality({i \in DOMAIN cchan : cchan[i].t \in {"Processed", "ProcessedErr"}})
\* The coordinator's in_flight is not negative, and it is the directories
\* dispatched and not yet reported as Processed: those the workers hold and
\* the Processed messages on their way (a worker that panicked reports
\* nothing of what it held)
InFlightBalanced ==
    cc.pc \in {"recv", "try"} =>
        /\ cc.queue >= 0
        /\ (\A w \in DOMAIN cw : cw[w].pc # "dead") =>
               cc.queue = SumOutstanding(DOMAIN cw) + ProcessedInFlight

\* C30: the outstanding-task counter of every traversal worker equals the
\* Read tasks delegated to it less those it has finished and never passes
\* below zero (no subtraction panics or wraps): it is decremented once per
\* delegated directory, whatever number of entry errors the worker reports
\* while it lists it.  The coordinator's in_flight counter equals the
\* directories dispatched less the Processed messages handled and is never
\* negative.
C30_CountersBalance ==
    /\ \A w \in DOMAIN cw : ~cw[w].poisoned /\ cw[w].count = Outstanding(w)
    /\ InFlightBalanced

\* ---------------------------------------------------------------------------
\* Termination of Walker::hash (walker/mod.rs 463-547, walker/pool.rs 79-109).

\* Some thread of the hashing call can take a step.
HashCanStep == ENABLED HashStep

\* Pool::shutdown was called while a path was still waiting for a worker.
ShutdownWithPathsLeft == hc.shutdowning /\ hc.paths # <<>>

\* A report of a worker (Processed or Error) is still queued.
ReportsQueued == \E i \in DOMAIN hchan : hchan[i].t # "WorkerShutdownNotification"

\* C31: while no abort is requested, a running hash() never comes to a state
\* where no thread can step (so it returns); Shutdown is sent only when no
\* undispatched path remains; and the coordinator leaves its loop only after
\* every queued report of a worker was read.
C31_HashTerminates ==
    (user.pc = "hash" /\ ~breaker) =>
        /\ HashCanStep
        /\ ~ShutdownWithPathsLeft
        /\ hc.pc = "join" => ~ReportsQueued

\* ---------------------------------------------------------------------------
\* The dispatch protocol of Walker::hash (walker/mod.rs 404-461, 463-545).

\* The batches a worker holds: those waiting in its task channel, the one it
\* is working on, and the one whose Processed report was not read yet.
BatchesQueued(w) == Cardinality({i \in DOMAIN hw[w].tasks : hw[w].tasks[i].t = "Hash"})
BatchAtWork(w) == IF hw[w].pc \in {"work", "read"} THEN 1 ELSE 0
BatchesReported(w) ==
    Cardinality({i \in DOMAIN hchan : hchan[i].t = "Processed" /\ hchan[i].w = w})
BatchesHeld(w) == BatchesQueued(w) + BatchAtWork(w) + BatchesReported(w)

\* Task::Shutdown was sent to the worker: it waits in the task channel, or
\* the worker has read it
ShutdownSentTo(w) ==
    \/ \E i \in DOMAIN hw[w].tasks : hw[w].tasks[i].t = "Shutdown"
    \/ hc.shutdowning /\ hw[w].pc \in {"exiting", "notify", "down"}

\* a batch waits in the task channel of a worker behind Task::Shutdown, or
\* in the task channel of a worker that has left its loop
BatchAfterShutdown(w) ==
    \/ \E i, j \in DOMAIN hw[w].tasks :
          i < j /\ hw[w].tasks[i].t = "Shutdown" /\ hw[w].tasks[j].t = "Hash"
    \/ hw[w].pc \in {"exiting", "notify", "down"} /\ BatchesQueued(w) > 0

\* a worker that has not panicked holds at most one batch, and is handed
\* none once Shutdown was sent to it
OneBatchEach ==
    \A w \in DOMAIN hw :
        hw[w].pc # "dead" => BatchesHeld(w) <= 1 /\ ~BatchAfterShutdown(w)

\* C32: a live worker holds at most one batch (the first one, or the one it
\* was handed when its own Processed report was read), Shutdown is sent only
\* when no path remains, and no batch is handed to a worker after Shutdown
\* was sent to it.
C32_DispatchProtocol ==
    user.pc = "hash" => OneBatchEach /\ ~ShutdownWithPathsLeft

\* C32 amended: as C32, but Shutdown is also sent, with paths remaining, when
\* the loop was left with an error or with Aborted.
C32_DispatchProtocolAmended ==
    user.pc = "hash" =>
        /\ OneBatchEach
        /\ ShutdownWithPathsLeft => hc.outer.kind # "Ok"

\* a worker works on a batch it was handed in response to its report, and
\* later Shutdown was sent with no path left
C32_Witness ==
    /\ user.pc = "hash"
    /\ hc.shutdowning /\ hc.paths = <<>> /\ hc.outer.kind = "Ok"
    /\ Len(hc.hashes) > hc.perJob
    /\ \E w \in DOMAIN hw : ShutdownSentTo(w)

\* ---------------------------------------------------------------------------
\* The order of Context::consider and the dispatch (collector/mod.rs 217-240).

\* The coordinator holds an entry for the directory with every rule that the
\* context file of the directory gives
HoldsOwnRules(dir) ==
    ContextLines(fs, dir) # {} =>
        \E e \in cc.patterns :
            /\ e.dir = dir
            /\ ContextLines(fs, dir) \subseteq (IF opt.context = "Accept" THEN e.accept
                                                ELSE e.ignore)

\* The directory was dispatched to a worker: the task waits, the worker lists
\* the directory, or a message about the directory or one of its entries waits
\* for the coordinator
Dispatched(dir) ==
    \/ \E w \in DOMAIN cw :
          \/ \E i \in DOMAIN cw[w].tasks :
                cw[w].tasks[i].t = "Read" /\ cw[w].tasks[i].path = dir
          \/ cw[w].pc = "list" /\ cw[w].dir = dir
    \/ \E i \in DOMAIN cchan :
          \/ cchan[i].t \in {"Processed", "ProcessedErr"} /\ cchan[i].path = dir
          \/ cchan[i].t \in {"Delegate", "Error"} /\ cchan[i].path # Root
                                                 /\ Parent(cchan[i].path) = dir

\* C33: once a directory is dispatched to a worker (hence when one of its
\* sub-directories is delegated and when its files are filtered) the
\* coordinator holds the rules of the directory's own context file.
C33_RulesBeforeDispatch ==
    user.pc = "collect" =>
        \A dir \in {Root, SubDir} : Dispatched(dir) => HoldsOwnRules(dir)

\* the files of a directory that has rules of its own are about to be filtered
C33_Witness ==
    /\ user.pc = "collect" /\ cc.pc = "recv" /\ cchan # <<>>
    /\ Head(cchan).t = "Processed" /\ Head(cchan).paths # <<>>
    /\ Head(cchan).path = SubDir
    /\ ContextLines(fs, SubDir) # {} /\ ContextLines(fs, Root) # {}

\* ---------------------------------------------------------------------------
\* The worker threads at the return of collect() and of hash()
\* (collector/mod.rs 177-183, 267-276; walker/mod.rs 473-481, 546).

\* C34: when collect() or hash() has returned, with Ok or with an error, no
\* worker thread that the call spawned is still running: each has terminated
\* and was joined before the return.
C34_NoWorkerOutlivesCall ==
    user.pc = "idle" => hist.running = 0

\* ---------------------------------------------------------------------------
\* The ticks a receiver gets (walker/progress.rs 30-43, 134-138;
\* collector/mod.rs 241-244; walker/mod.rs 506-508).

\* The ticks of the channel in the order the receiver gets them: the one
\* delivered last, then those that wait in the queue
TicksInOrder ==
    (IF progress.last = NoTick THEN <<>> ELSE <<progress.last>>) \o progress.ticks

\* done == total for Collecting; done <= total for Hashing, the total being
\* the number of paths the Walker held when hash() was called
TickWellFormed(t) ==
    /\ t.job = "Collecting" => t.done = t.total
    /\ t.job = "Hashing" => t.done <= t.total /\ t.total = Cardinality(hist.atHash)

ProgressGivesReceiver == ENABLED WalkerProgress

\* The consumer holds the receiver of a channel of which the Walker still
\* holds a sender: recv() on an empty queue waits
ConsumerWaits == progress.rx = "user"

\* hash() has returned and the consumer took its receiver before that call
HashReturnedToConsumer == user.pc = "idle" /\ user.res.op = "hash" /\ progress.taken

\* C36: progress() hands the receiver of a channel out once, and None until
\* hash() has made a new channel; when hash() has returned, the channel whose
\* receiver was taken before the call has no sender left, so that a consumer
\* looping on recv() sees the disconnection.
C36_ReceiverClosedByHash ==
    /\ progress.rx \in {"user", "gone"} => ~ProgressGivesReceiver
    /\ HashReturnedToConsumer => ~ConsumerWaits

\* ---------------------------------------------------------------------------
\* The digest and the items of the Walker (walker/mod.rs 562-572;
\* test/walker/mod.rs 100-118).

\* C37: after collect() and hash() have both succeeded under LogErrors, the
\* digest is zero-length exactly when the Walker holds no item, whether the
\* items hold digests or errors.
C37_EmptyDigestIffNoItems ==
    (HashReturned /\ user.res.kind = "Ok" /\ opt.tolerance = "LogErrors") =>
        (user.res.digest = <<>> <=> walker.paths = <<>>)

\* ---------------------------------------------------------------------------
\* The paths a failed collect() leaves (walker/mod.rs 204-225, 321-324;
\* test/prankster/mod.rs 58-98).

\* collect() has returned an error
CollectFailed == user.pc = "idle" /\ user.res.op = "collect" /\ user.res.kind # "Ok"

\* C38: when collect() has returned an error the Walker holds no path,
\* whichever of its entries failed, and a hash() called over no path returns
\* Ok with the zero-length digest.
C38_FailedCollectLeavesNoPaths ==
    /\ CollectFailed => walker.paths = <<>>
    /\ (user.pc = "idle" /\ user.res.op = "hash" /\ user.hashes = 1 /\ hist.atHash = {})
          => user.res = HashOkResult(<<>>)

\* ---------------------------------------------------------------------------
\* The lists of an Entry under include(), exclude() and pattern()
\* (entry/mod.rs 256-296).

NoDuplicates(list) == \A i, j \in DOMAIN list : list[i] = list[j] => i = j

\* the lists hold no filter twice, and no filter is both included and excluded
EntryListsClean ==
    /\ NoDuplicates(probe.include) /\ NoDuplicates(probe.exclude)
    /\ NoDuplicates(probe.patterns)
    /\ \A i \in DOMAIN probe.include : ~Contains(probe.exclude, probe.include[i])

\* C39: after any sequence of include(), exclude() and pattern() the include
\* and exclude lists are duplicate-free and disjoint and the pattern list is
\* duplicate-free; a call with a filter that compiles returns Ok, also when
\* the filter is present already; and after an exclude(f) that returned Ok,
\* f is in the exclude list, also when include(f) came first.
C39_EntryLists ==
    /\ EntryListsClean
    /\ (probe.call \in {"include", "exclude"} /\ FilterTryInto(probe.given))
          => probe.added = "Ok"
    /\ (probe.call = "exclude" /\ probe.added = "Ok")
          => Contains(probe.exclude, probe.given)

\* ---------------------------------------------------------------------------
\* What a filter is matched against (entry/filter.rs 90-116).

\* the final component of a path
FileName(path) == <<path[Len(path)]>>

\* One filter has been tested on one path
FilterTested == probe.call = "filtered"

SomeOf(matches) == IF matches THEN "Some(true)" ELSE "Some(false)"

\* C40: a Files filter is matched against the final component of a path of a
\* file and a Folders filter against the final component of a path of a
\* directory, each giving None for a path of another type; a Common filter
\* is matched against the full path of any path.
C40_FilterTargets ==
    FilterTested =>
        probe.verdict =
            CASE probe.given.k = "Files" ->
                    IF probe.kind = "file"
                    THEN SomeOf(GlobMatches(probe.given.g, FileName(probe.path))) ELSE "None"
              [] probe.given.k = "Folders" ->
                    IF probe.kind = "dir"
                    THEN SomeOf(GlobMatches(probe.given.g, FileName(probe.path))) ELSE "None"
              [] probe.given.k = "Common" ->
                    SomeOf(GlobMatches(probe.given.g, probe.path))
====
